---------------------------- MODULE Spec2Model ----------------------------
(***************************************************************************)
(* Kacky Watcher: the reconciliation state (watcher_state.py) and the     *)
(* fetch policy / poll driver (watcher_core.py), driven by the watcher    *)
(* loop and by the user interface's watch-list changes (gui.py).          *)
(*                                                                         *)
(* Time is counted in whole seconds.  A text that the code parses (a map  *)
(* number, an "M:SS" ETA, a remaining time) is a tuple of one-character   *)
(* strings; a server label, which the code only compares and joins, is a  *)
(* string.  A Python dict is a function whose DOMAIN is the set of keys.  *)
(***************************************************************************)
EXTENDS Integers, Sequences, FiniteSets, TLC

(***************************************************************************)
(* Bounds of the model and configuration values.                           *)
(***************************************************************************)
\* rows in one fetched snapshot
MaxRows == 2
\* time.time() at the first poll cycle
StartTime == 20
\* poll cycles are modelled while the clock is below StartTime + Horizon
Horizon == 6
\* seconds a fetch may take (time.time() is read again in format_summary)
MaxFetchTime == 2
\* watch-list changes by the user (check boxes, status file) in one run
MaxWatchChanges == 2
\* the user makes them while the clock is below StartTime + UserSeconds
UserSeconds == 3
\* the largest decrement countdown_etas is tried with
MaxDecrement == 2
\* the long run: poll cycles while the clock is below StartTime + LongHorizon
LongHorizon == 64
\* the long run: watch-list changes while below StartTime + LongUserSeconds
LongUserSeconds == 6
\* the outage run: poll cycles while the clock is below StartTime + OutageHorizon
OutageHorizon == 610
\* rows in a snapshot handed to format_summary
MaxSummaryRows == 2
\* rows in a snapshot handed to update_from_fetch on its own
MaxFetchRows == 2
\* config["LIVE_DURATION_SECONDS"], a setting (default 600)
LiveDurationSeconds == 3
\* config["WATCHLIST_REFRESH_SECONDS"], a setting (default 20)
WatchlistRefreshSeconds == 2

(***************************************************************************)
(* Program constants.                                                      *)
(***************************************************************************)
MinFetchInterval == 2
ResyncDelay == 60
PeriodicUnknown == 60
PeriodicStale == 300
WarnAfterFailures == 2
EtaFetchThresholdSeconds == 60
UnknownEta == 1000000000
WarnAgoSeconds == 60
DefaultUptime == 600

Maps == {1}
Servers == {"Server 1", "Server 2"}

Max0(x) == IF x < 0 THEN 0 ELSE x

\* dict helpers
Put(f, k, v) == [x \in (DOMAIN f) \cup {k} |-> IF x = k THEN v ELSE f[x]]
Del(f, k) == [x \in (DOMAIN f) \ {k} |-> f[x]]
Get(f, k, d) == IF k \in DOMAIN f THEN f[k] ELSE d
EmptyDict == [x \in {} |-> 0]

(***************************************************************************)
(* Texts and their parsing.                                                *)
(***************************************************************************)
Digits == {"0", "1", "2", "3", "4", "5", "6", "7", "8", "9"}

DigitVal(c) ==
    CASE c = "0" -> 0 [] c = "1" -> 1 [] c = "2" -> 2 [] c = "3" -> 3
      [] c = "4" -> 4 [] c = "5" -> 5 [] c = "6" -> 6 [] c = "7" -> 7
      [] c = "8" -> 8 [] c = "9" -> 9

\* str.isdigit(): non-empty and all digits
isdigit(s) == Len(s) > 0 /\ \A i \in 1..Len(s) : s[i] \in Digits

RECURSIVE DigitsValue(_)
DigitsValue(s) ==
    IF Len(s) = 0 THEN 0
    ELSE 10 * DigitsValue(SubSeq(s, 1, Len(s) - 1)) + DigitVal(s[Len(s)])

\* int(text) succeeds on a digit string and raises ValueError otherwise
IntOk(s) == isdigit(s)

\* re.match(r"^(\d{1,2}):(\d{2})$", eta)
EtaMatch(eta) ==
    /\ Len(eta) \in {4, 5}
    /\ eta[Len(eta) - 2] = ":"
    /\ \A i \in 1..Len(eta) : i # Len(eta) - 2 => eta[i] \in Digits

\* int(m.group(1)) * 60 + int(m.group(2))
EtaSeconds(eta) ==
    DigitsValue(SubSeq(eta, 1, Len(eta) - 3)) * 60
        + DigitsValue(SubSeq(eta, Len(eta) - 1, Len(eta)))

(***************************************************************************)
(* Rows of a snapshot, as parse_live_maps builds them.                     *)
(***************************************************************************)
MapText(m) == IF m = 1 THEN <<"1">> ELSE IF m = 2 THEN <<"2">> ELSE <<"3">>

\* a live row whose time cell held "M:SS": remaining_time is str(seconds)
LiveRow(m, srv, rem) ==
    [map_number |-> MapText(m), server |-> srv, is_live |-> TRUE, eta |-> <<>>,
     remaining_time |-> rem, needs_retry |-> FALSE]

\* a live row whose time cell was empty: placeholder 600 and needs_retry
RetryRow(m, srv) ==
    [map_number |-> MapText(m), server |-> srv, is_live |-> TRUE, eta |-> <<>>,
     remaining_time |-> <<"6", "0", "0">>, needs_retry |-> TRUE]

\* a queued map: not live, ETA text, no remaining time
NextRow(m, srv, eta) ==
    [map_number |-> MapText(m), server |-> srv, is_live |-> FALSE, eta |-> eta,
     remaining_time |-> <<>>, needs_retry |-> FALSE]

RowPool ==
    UNION {
        { LiveRow(m, "Server 1", <<"2">>),
          RetryRow(m, "Server 1"),
          NextRow(m, "Server 1", <<"0", ":", "0", "1">>),
          NextRow(m, "Server 2", <<"0", ":", "0", "2">>) } : m \in Maps }

\* a snapshot lists up to MaxRows different rows, in any order
Snapshots ==
    UNION { { rows \in [1..n -> RowPool] :
                \A i, j \in 1..n : rows[i] = rows[j] => i = j } :
            n \in 0..MaxRows }

\* the snapshots of the long run: nothing, a long or a short live window,
\* a map queued far ahead, a map queued on two servers
LongSnapshots ==
    { <<>>,
      <<LiveRow(1, "Server 1", <<"7", "0">>)>>,
      <<LiveRow(1, "Server 1", <<"2">>)>>,
      <<NextRow(1, "Server 2", <<"1", ":", "3", "0">>)>>,
      <<NextRow(1, "Server 2", <<"0", ":", "0", "2">>),
        NextRow(1, "Server 1", <<"0", ":", "0", "1">>)>> }

(***************************************************************************)
(* WatcherState                                                            *)
(***************************************************************************)
\* WatcherState.__init__
InitialUptimes ==
    [s \in {"Server 1", "Server 2", "Server 3", "Server 4"} |-> 600]
    @@ [s \in {"Server 5", "Server 6", "Server 7", "Server 8"} |-> 780]
    @@ [s \in {"Server 9", "Server 10"} |-> 900]

InitialState ==
    [eta_seconds_by_map    |-> EmptyDict,
     server_by_map         |-> EmptyDict,
     live_until_by_map     |-> EmptyDict,
     live_servers_by_map   |-> EmptyDict,
     upcoming_by_map       |-> EmptyDict,
     notified_live         |-> {},
     server_uptime_seconds |-> InitialUptimes]

\* variant: whole minutes by cutting off the seconds
PyRoundMinutes_floor(secs) == secs \div 60

\* round(x / 60.0): Python rounds a half to the even neighbour
PyRoundMinutes(secs) ==
    LET q == secs \div 60
        r == secs % 60
    IN  IF r < 30 THEN q
        ELSE IF r > 30 THEN q + 1
        ELSE IF q % 2 = 0 THEN q ELSE q + 1

\* WatcherState.get_server_uptime
get_server_uptime(st, server) ==
    IF server = "" THEN DefaultUptime
    ELSE Get(st.server_uptime_seconds, server, DefaultUptime)

\* WatcherState.update_server_uptime; x >= u * 0.95 is 100 x >= 95 u
update_server_uptime(st, server, observed_remaining_time) ==
    IF server = "" \/ observed_remaining_time <= 0 THEN st
    ELSE
    LET observed_seconds == PyRoundMinutes(observed_remaining_time) * 60
        current_uptime == Get(st.server_uptime_seconds, server, DefaultUptime)
        diff == observed_seconds - observed_remaining_time
        time_diff_from_full_minute == IF diff < 0 THEN 0 - diff ELSE diff
        is_close_to_full_minute == time_diff_from_full_minute <= 30
        is_high_remaining_time ==
            100 * observed_remaining_time >= 95 * current_uptime
    IN  IF /\ is_close_to_full_minute
           /\ (observed_seconds >= current_uptime \/ is_high_remaining_time)
           /\ \/ observed_seconds > current_uptime
              \/ /\ 100 * observed_seconds >= 95 * current_uptime
                 /\ 100 * observed_seconds <= 105 * current_uptime
        THEN [st EXCEPT !.server_uptime_seconds =
                            Put(@, server, observed_seconds)]
        ELSE st

\* sorted(items, key=lambda x: x[1]): a stable sort by seconds
RECURSIVE InsertByTime(_, _)
InsertByTime(sorted, item) ==
    IF Len(sorted) = 0 THEN <<item>>
    ELSE IF sorted[Len(sorted)][2] <= item[2] THEN Append(sorted, item)
    ELSE Append(InsertByTime(SubSeq(sorted, 1, Len(sorted) - 1), item),
                sorted[Len(sorted)])

RECURSIVE SortedByTime(_)
SortedByTime(items) ==
    IF Len(items) = 0 THEN <<>>
    ELSE InsertByTime(SortedByTime(SubSeq(items, 1, Len(items) - 1)),
                      items[Len(items)])

\* existing = {s: t for s, t in items}: the value of key srv (the last one)
HasServer(items, srv) == \E i \in 1..Len(items) : items[i][1] = srv
ServerTime(items, srv) ==
    LET i == CHOOSE j \in 1..Len(items) :
                 /\ items[j][1] = srv
                 /\ \A k \in (j + 1)..Len(items) : items[k][1] # srv
    IN  items[i][2]

\* existing[srv] = sec; existing.items(): in place when present, else last
SetServerTime(items, srv, sec) ==
    IF HasServer(items, srv)
    THEN [i \in 1..Len(items) |->
              IF items[i][1] = srv THEN <<srv, sec>> ELSE items[i]]
    ELSE Append(items, <<srv, sec>>)

\* variant: the per-server list left unsorted
UpdateUpcoming_unsorted(items, srv, sec) ==
    IF (~HasServer(items, srv)) \/ sec < ServerTime(items, srv)
    THEN SetServerTime(items, srv, sec)
    ELSE items

\* the per-server list step of update_from_fetch
UpdateUpcoming(items, srv, sec) ==
    IF (~HasServer(items, srv)) \/ sec < ServerTime(items, srv)
    THEN SortedByTime(SetServerTime(items, srv, sec))
    ELSE items

\* variant: the needs_retry flag ignored
IsPlaceholder_ignored(r) == FALSE

\* update_from_fetch, a live row flagged needs_retry: skipped before any update
IsPlaceholder(r) == r.needs_retry

\* update_from_fetch, a row with is_live set (after the needs_retry skip)
ProcessLiveRow(st, r, mn, srv, now_ts, maps_with_local_state) ==
    LET has_time == isdigit(r.remaining_time)
        remaining_seconds == DigitsValue(r.remaining_time)
        st1 == IF has_time /\ remaining_seconds > 0
               THEN update_server_uptime(st, srv, remaining_seconds)
               ELSE st
        AddServer(s) ==
            IF srv # ""
            THEN [s EXCEPT !.live_servers_by_map =
                     Put(@, mn, Get(@, mn, {}) \cup {srv})]
            ELSE s
    IN  IF mn \in DOMAIN st1.live_until_by_map
        THEN AddServer(IF has_time
                       THEN [st1 EXCEPT !.live_until_by_map =
                                Put(@, mn, now_ts + remaining_seconds)]
                       ELSE st1)
        ELSE IF mn \notin maps_with_local_state
        THEN AddServer([st1 EXCEPT !.live_until_by_map =
                 Put(@, mn, IF has_time THEN now_ts + remaining_seconds
                            ELSE now_ts + get_server_uptime(st1, srv))])
        ELSE st1

\* update_from_fetch, a row without is_live
ProcessNextRow(st, r, mn, srv, maps_with_local_state) ==
    IF Len(r.eta) = 0 \/ ~EtaMatch(r.eta) THEN st
    ELSE
    LET sec == EtaSeconds(r.eta)
        st1 == IF \/ mn \in DOMAIN st.eta_seconds_by_map
                  \/ mn \notin maps_with_local_state
               THEN [st EXCEPT !.eta_seconds_by_map = Put(@, mn, sec),
                               !.server_by_map = Put(@, mn, srv)]
               ELSE st
    IN  IF srv # ""
        THEN [st1 EXCEPT !.upcoming_by_map =
                 Put(@, mn, UpdateUpcoming(Get(@, mn, <<>>), srv, sec))]
        ELSE st1

\* variant: the records of every map are processed, watched or not
ProcessRow_all(st, r, watched_, now_ts, maps_with_local_state) ==
    IF ~IntOk(r.map_number) THEN st
    ELSE
    LET mn == DigitsValue(r.map_number)
        srv == r.server
    IN  IF r.is_live
        THEN IF IsPlaceholder(r) THEN st
             ELSE ProcessLiveRow(st, r, mn, srv, now_ts, maps_with_local_state)
        ELSE ProcessNextRow(st, r, mn, srv, maps_with_local_state)

\* update_from_fetch, the body of the loop over rows
ProcessRow(st, r, watched_, now_ts, maps_with_local_state) ==
    IF ~IntOk(r.map_number) THEN st
    ELSE
    LET mn == DigitsValue(r.map_number)
        srv == r.server
    IN  IF mn \notin watched_ THEN st
        ELSE IF r.is_live
        THEN IF IsPlaceholder(r) THEN st
             ELSE ProcessLiveRow(st, r, mn, srv, now_ts, maps_with_local_state)
        ELSE ProcessNextRow(st, r, mn, srv, maps_with_local_state)

\* variant: a record whose map number is no number ends the loop over rows
RECURSIVE ProcessRows_abort(_, _, _, _, _)
ProcessRows_abort(st, rows, watched_, now_ts, maps_with_local_state) ==
    IF Len(rows) = 0 \/ ~IntOk(Head(rows).map_number) THEN st
    ELSE ProcessRows_abort(
             ProcessRow(st, Head(rows), watched_, now_ts, maps_with_local_state),
             Tail(rows), watched_, now_ts, maps_with_local_state)

RECURSIVE ProcessRows(_, _, _, _, _)
ProcessRows(st, rows, watched_, now_ts, maps_with_local_state) ==
    IF Len(rows) = 0 THEN st
    ELSE ProcessRows(
             ProcessRow(st, Head(rows), watched_, now_ts, maps_with_local_state),
             Tail(rows), watched_, now_ts, maps_with_local_state)

\* WatcherState.update_from_fetch: the state afterwards
update_from_fetch(st, rows, watched_, now_ts) ==
    ProcessRows(st, rows, watched_, now_ts,
                (DOMAIN st.eta_seconds_by_map) \cup (DOMAIN st.live_until_by_map))

\* WatcherState.countdown_etas
CountdownItems(items, d) ==
    [i \in 1..Len(items) |-> <<items[i][1], Max0(items[i][2] - d)>>]

\* variant: the earliest ETAs decremented without the floor at zero
countdown_etas_unfloored(st, decrement_seconds) ==
    [st EXCEPT
       !.eta_seconds_by_map = [k \in DOMAIN @ |-> @[k] - decrement_seconds],
       !.upcoming_by_map =
           [mn \in DOMAIN @ |-> CountdownItems(@[mn], decrement_seconds)]]

countdown_etas(st, decrement_seconds) ==
    [st EXCEPT
       !.eta_seconds_by_map =
           [k \in DOMAIN @ |-> Max0(@[k] - decrement_seconds)],
       !.upcoming_by_map =
           [mn \in DOMAIN @ |-> CountdownItems(@[mn], decrement_seconds)]]

\* the deletion both cleanup and get_live_summary perform for a set of maps
DropLive(st, gone) ==
    [st EXCEPT
       !.live_until_by_map = [k \in (DOMAIN @) \ gone |-> @[k]],
       !.live_servers_by_map = [k \in (DOMAIN @) \ gone |-> @[k]]]

\* variant: a window that runs out at now_ts is kept
cleanup_expired_live_windows_strict(st, now_ts) ==
    DropLive(st, { mn \in DOMAIN st.live_until_by_map :
                     st.live_until_by_map[mn] < now_ts })

\* WatcherState.cleanup_expired_live_windows
cleanup_expired_live_windows(st, now_ts) ==
    DropLive(st, { mn \in DOMAIN st.live_until_by_map :
                     st.live_until_by_map[mn] <= now_ts })

\* WatcherState.get_live_summary: the state afterwards
LiveSummaryState(st, watched_, live_now, now_ts) ==
    LET st1 == cleanup_expired_live_windows(st, now_ts)
    IN  IF live_now # {}
        THEN DropLive(st1, (DOMAIN st1.live_until_by_map) \ live_now)
        ELSE st1

\* WatcherState.get_live_summary: the returned set (the list is it, sorted)
LiveSummary(st, watched_, live_now, now_ts) ==
    IF live_now # {} THEN live_now \cap watched_
    ELSE LET st1 == cleanup_expired_live_windows(st, now_ts)
         IN  { mn \in watched_ : /\ mn \in DOMAIN st1.live_until_by_map
                                 /\ st1.live_until_by_map[mn] > now_ts }

\* sorted(S) for a set of numbers
RECURSIVE SortedList(_)
SortedList(S) ==
    IF S = {} THEN <<>>
    ELSE LET x == CHOOSE y \in S : \A z \in S : y <= z
         IN  <<x>> \o SortedList(S \ {x})

\* variant: a map is listed when the fetch or a live window says it is live
get_live_summary_either(st, watched_, live_now, now_ts) ==
    LET st1 == cleanup_expired_live_windows(st, now_ts)
    IN  [state |-> st1,
         live_summary |->
             SelectSeq(SortedList(watched_),
                       LAMBDA mn : \/ mn \in live_now
                                   \/ /\ mn \in DOMAIN st1.live_until_by_map
                                      /\ st1.live_until_by_map[mn] > now_ts)]

\* WatcherState.get_live_summary: the state afterwards and the returned list
get_live_summary(st, watched_, live_now, now_ts) ==
    LET st1 == cleanup_expired_live_windows(st, now_ts)
    IN  IF live_now # {}
        THEN [state |-> DropLive(st1, (DOMAIN st1.live_until_by_map) \ live_now),
              live_summary |-> SortedList(live_now \cap watched_)]
        ELSE [state |-> st1,
              live_summary |->
                  SelectSeq(SortedList(watched_),
                            LAMBDA mn : /\ mn \in DOMAIN st1.live_until_by_map
                                        /\ st1.live_until_by_map[mn] > now_ts)]

\* min(candidates) of a non-empty set of numbers
MinOf(S) == CHOOSE x \in S : \A y \in S : x <= y

\* WatcherState.get_nearest_eta: the nearest ETA (10**9 when there is none)
get_nearest_eta(st, watched_, threshold_sec, now_ts) ==
    LET tracked == { st.eta_seconds_by_map[mn] :
                       mn \in { k \in DOMAIN st.eta_seconds_by_map :
                                  /\ st.eta_seconds_by_map[k] > 0
                                  /\ k \in watched_
                                  /\ \/ k \notin DOMAIN st.live_until_by_map
                                     \/ st.live_until_by_map[k] <= now_ts } }
        \* of a live watched map, the first per-server ETA within the threshold
        Below(items) == { i \in 1..Len(items) :
                            items[i][2] > 0 /\ items[i][2] <= threshold_sec }
        upcoming == { st.upcoming_by_map[mn][MinOf(Below(st.upcoming_by_map[mn]))][2] :
                        mn \in { k \in DOMAIN st.upcoming_by_map :
                                   /\ k \in watched_
                                   /\ k \in DOMAIN st.live_until_by_map
                                   /\ st.live_until_by_map[k] > now_ts
                                   /\ Below(st.upcoming_by_map[k]) # {} } }
        candidates == tracked \cup upcoming
    IN  IF candidates = {} THEN UnknownEta ELSE MinOf(candidates)

\* WatcherState.has_expiring_live_windows, with a watched set given
has_expiring_live_windows(st, now_ts, threshold_sec, margin_sec, watched_) ==
    \E mn \in DOMAIN st.live_until_by_map :
        /\ mn \in watched_
        /\ st.live_until_by_map[mn] <= now_ts + threshold_sec + margin_sec

(***************************************************************************)
(* KackyWatcher                                                            *)
(***************************************************************************)
VARIABLES
    state,                  \* KackyWatcher.state, the WatcherState
    watcher,                \* the other fields of KackyWatcher
    clock,                  \* time.time() when the last poll cycle ended
    immediate_fetch_event,  \* gui: the immediate-fetch signal
    file_tracking,          \* the "tracking" list of the map status file
    file_changed,           \* its mtime differs from last_status_mtime
    file_server_uptimes,    \* the "server_uptimes" dict of the map status file
    gui,                    \* KackyWatcherGUI: fields its timer callbacks use
    changes,                \* watch-list changes made so far
    out,                    \* what the last poll cycle did and reported
    hist                    \* the run so far: notifications, fetch attempts

vars == <<state, watcher, clock, immediate_fetch_event, file_tracking,
          file_changed, file_server_uptimes, gui, changes, out, hist>>

\* KackyWatcherGUI.__init__
InitialGui ==
    [last_countdown_update |-> 0, live_maps |-> {}, pending_refresh |-> FALSE]

\* KackyWatcher.__init__
InitialWatcher(tracking) ==
    [watched                    |-> tracking,
     watchlist_added            |-> FALSE,
     last_fetch_time            |-> 0,
     last_successful_fetch_time |-> 0,
     consecutive_fetch_failures |-> 0,
     live_map_resync_times      |-> EmptyDict,
     periodic_refetch_time      |-> 0,
     initial_fetch_done         |-> FALSE,
     last_status_check          |-> 0]

\* KackyWatcher.reload_status
reload_status(w, now, tracking, changed) ==
    IF now - w.last_status_check < WatchlistRefreshSeconds THEN w
    ELSE IF changed
    THEN [w EXCEPT !.last_status_check = now,
                   !.watched = tracking,
                   !.watchlist_added = (@ \/ (tracking \ w.watched) # {})]
    ELSE [w EXCEPT !.last_status_check = now]

\* reload_status stores the new mtime when it reloads
ReloadConsumes(w, now, changed) ==
    now - w.last_status_check >= WatchlistRefreshSeconds /\ changed

\* a watched map with no ETA and no live window
HasUnknownTimeMaps(w, st) ==
    \E mn \in w.watched : /\ mn \notin DOMAIN st.eta_seconds_by_map
                          /\ mn \notin DOMAIN st.live_until_by_map

\* should_fetch, step 4: the timer is scheduled only when it is 0.0
SchedulePeriodic(w, st, now_ts) ==
    IF w.periodic_refetch_time = 0
    THEN IF HasUnknownTimeMaps(w, st) THEN now_ts + PeriodicUnknown
         ELSE IF w.last_successful_fetch_time > 0 THEN now_ts + PeriodicStale
         ELSE 0
    ELSE w.periodic_refetch_time

\* should_fetch, step 1
InitialFetchDue(w) == ~w.initial_fetch_done

\* should_fetch, step 2
WatchlistFetchDue(w, st) ==
    /\ w.watchlist_added
    /\ (w.watched \ DOMAIN st.eta_seconds_by_map)
           \ DOMAIN st.live_until_by_map # {}

\* variant: a fetch when the nearest ETA is within the threshold
should_fetch_eta_threshold(w, st, now_ts) ==
    LET same == w.periodic_refetch_time
        timer == SchedulePeriodic(w, st, now_ts)
    IN  IF InitialFetchDue(w)
        THEN [should |-> TRUE, reason |-> "initial", timer |-> same]
        ELSE IF WatchlistFetchDue(w, st)
        THEN [should |-> TRUE, reason |-> "watchlist_added", timer |-> same]
        ELSE IF \E mn \in DOMAIN w.live_map_resync_times :
                    now_ts >= w.live_map_resync_times[mn]
        THEN [should |-> TRUE, reason |-> "live_resync", timer |-> same]
        ELSE IF get_nearest_eta(st, w.watched, EtaFetchThresholdSeconds, now_ts)
                    <= EtaFetchThresholdSeconds
        THEN [should |-> TRUE, reason |-> "eta_threshold", timer |-> same]
        ELSE IF timer > 0 /\ now_ts >= timer
        THEN [should |-> TRUE, reason |-> "periodic_refetch", timer |-> timer]
        ELSE [should |-> FALSE, reason |-> "none", timer |-> timer]

\* variant: a fetch when a watched live window runs out within 10 seconds
should_fetch_live_expiring(w, st, now_ts) ==
    LET same == w.periodic_refetch_time
        timer == SchedulePeriodic(w, st, now_ts)
    IN  IF InitialFetchDue(w)
        THEN [should |-> TRUE, reason |-> "initial", timer |-> same]
        ELSE IF WatchlistFetchDue(w, st)
        THEN [should |-> TRUE, reason |-> "watchlist_added", timer |-> same]
        ELSE IF has_expiring_live_windows(st, now_ts, 5, 5, w.watched)
        THEN [should |-> TRUE, reason |-> "live_window_expiring", timer |-> same]
        ELSE IF \E mn \in DOMAIN w.live_map_resync_times :
                    now_ts >= w.live_map_resync_times[mn]
        THEN [should |-> TRUE, reason |-> "live_resync", timer |-> same]
        ELSE IF timer > 0 /\ now_ts >= timer
        THEN [should |-> TRUE, reason |-> "periodic_refetch", timer |-> timer]
        ELSE [should |-> FALSE, reason |-> "none", timer |-> timer]

\* KackyWatcher.should_fetch: (should_fetch, fetch_reason) and the timer
should_fetch(w, st, now_ts) ==
    LET same == w.periodic_refetch_time
        timer == SchedulePeriodic(w, st, now_ts)
    IN  IF InitialFetchDue(w)
        THEN [should |-> TRUE, reason |-> "initial", timer |-> same]
        ELSE IF WatchlistFetchDue(w, st)
        THEN [should |-> TRUE, reason |-> "watchlist_added", timer |-> same]
        ELSE IF \E mn \in DOMAIN w.live_map_resync_times :
                    now_ts >= w.live_map_resync_times[mn]
        THEN [should |-> TRUE, reason |-> "live_resync", timer |-> same]
        ELSE IF timer > 0 /\ now_ts >= timer
        THEN [should |-> TRUE, reason |-> "periodic_refetch", timer |-> timer]
        ELSE [should |-> FALSE, reason |-> "none", timer |-> timer]

\* variant: no minimum interval
RateLimited_never(w, now_ts, fetch_reason) == FALSE

\* poll_once: the minimum interval between fetches and its exemptions
RateLimited(w, now_ts, fetch_reason) ==
    /\ now_ts - w.last_fetch_time < MinFetchInterval
    /\ fetch_reason \notin {"initial", "watchlist_added", "forced"}

\* poll_once: "not already live" in the ETA-expiry step
NotLiveAt(st, mn, now_ts) ==
    \/ mn \notin DOMAIN st.live_until_by_map
    \/ st.live_until_by_map[mn] <= now_ts

\* variant: the ETA-expiry step is skipped
ExpiredEtas_none(st, watched_, now_ts) == {}

\* poll_once: the maps collected in expired_etas
ExpiredEtas(st, watched_, now_ts) ==
    { mn \in watched_ :
        /\ NotLiveAt(st, mn, now_ts)
        /\ \/ /\ mn \in DOMAIN st.eta_seconds_by_map
              /\ st.eta_seconds_by_map[mn] <= 0
           \/ /\ mn \in DOMAIN st.upcoming_by_map
              /\ \E i \in 1..Len(st.upcoming_by_map[mn]) :
                     st.upcoming_by_map[mn][i][2] <= 0 }

\* poll_once: the server a promoted map is said to be live on
PromotionServer(st, mn) == Get(st.server_by_map, mn, "")

\* [(s, t) for s, t in items if s != server]
WithoutServer(items, server) ==
    SelectSeq(items, LAMBDA it : it[1] # server)

\* poll_once: one map of expired_etas marked live (state part)
Promote(st, mn, now_ts) ==
    LET server == PromotionServer(st, mn)
        rest == WithoutServer(Get(st.upcoming_by_map, mn, <<>>), server)
    IN  [st EXCEPT
           !.live_until_by_map = Put(@, mn, now_ts + LiveDurationSeconds),
           !.live_servers_by_map =
               IF server # "" THEN Put(@, mn, Get(@, mn, {}) \cup {server})
               ELSE @,
           !.eta_seconds_by_map = Del(@, mn),
           !.upcoming_by_map =
               IF mn \in DOMAIN @ /\ server # ""
               THEN IF Len(rest) = 0 THEN Del(@, mn) ELSE Put(@, mn, rest)
               ELSE @,
           !.notified_live = @ \cup {mn}]

RECURSIVE PromoteAll(_, _, _)
PromoteAll(st, todo, now_ts) ==
    IF todo = {} THEN st
    ELSE LET mn == CHOOSE x \in todo : \A y \in todo : x <= y
         IN  PromoteAll(Promote(st, mn, now_ts), todo \ {mn}, now_ts)

\* ", ".join(sorted(servers)) for the labels of Servers
JoinSorted(servers) ==
    IF servers = {} THEN ""
    ELSE IF servers = {"Server 1", "Server 2"} THEN "Server 1, Server 2"
    ELSE CHOOSE s \in servers : TRUE

\* poll_once: live windows that have run out, removed with their ledger entry
ExpireLive(st, now_ts) ==
    LET gone == { mn \in DOMAIN st.live_until_by_map :
                    st.live_until_by_map[mn] <= now_ts }
    IN  [DropLive(st, gone) EXCEPT !.notified_live = @ \ gone]

\* poll_once: all_live_maps
AllLiveMaps(st, watched_, now_ts) ==
    { mn \in watched_ : /\ mn \in DOMAIN st.live_until_by_map
                        /\ st.live_until_by_map[mn] > now_ts }

\* poll_once after a fetch: the periodic timer
TimerAfterFetch(w, st, now_ts, fetch_reason) ==
    IF fetch_reason = "periodic_refetch" THEN 0
    ELSE IF w.periodic_refetch_time = 0 \/ fetch_reason = "initial"
    THEN IF HasUnknownTimeMaps(w, st) THEN now_ts + PeriodicUnknown
         ELSE now_ts + PeriodicStale
    ELSE w.periodic_refetch_time

\* variant: the initial fetch counts as done only when rows came back
AfterFetchAttempt_success_only(w, rows, now_ts) ==
    [w EXCEPT
       !.last_fetch_time = now_ts,
       !.initial_fetch_done = (@ \/ Len(rows) > 0),
       !.last_successful_fetch_time = IF Len(rows) > 0 THEN now_ts ELSE @,
       !.consecutive_fetch_failures = IF Len(rows) > 0 THEN 0 ELSE @ + 1]

\* poll_once: the bookkeeping of one fetch attempt returning rows
AfterFetchAttempt(w, rows, now_ts) ==
    [w EXCEPT
       !.last_fetch_time = now_ts,
       !.initial_fetch_done = TRUE,
       !.last_successful_fetch_time = IF Len(rows) > 0 THEN now_ts ELSE @,
       !.consecutive_fetch_failures = IF Len(rows) > 0 THEN 0 ELSE @ + 1]

\* poll_once, the except clause around fetch_schedule(): rows = [], and the
\* failure counter is left as it is
AfterFetchException(w, now_ts) ==
    [w EXCEPT !.last_fetch_time = now_ts, !.initial_fetch_done = TRUE]

\* poll_once after a fetch without rows: what becomes of the warning.
\* time_since_success is float('inf') when no fetch has succeeded, and
\* int(float('inf')) in the message raises OverflowError
StalenessWarning(w, now_ts) ==
    IF w.consecutive_fetch_failures < WarnAfterFailures THEN "none"
    ELSE IF w.last_successful_fetch_time > 0
    THEN IF now_ts - w.last_successful_fetch_time > WarnAgoSeconds
         THEN "no data, last success N s ago"
         ELSE "no data"
    ELSE "OverflowError"

\* what fetch_schedule() may do: return the rows of a snapshot (none when the
\* fetchers or the parser failed inside it), or raise
FetchOutcomes(snapshots) ==
    { [rows |-> rows, raised |-> FALSE] : rows \in snapshots }
        \cup { [rows |-> <<>>, raised |-> TRUE] }

NoFetch == [rows |-> <<>>, raised |-> FALSE]

(***************************************************************************)
(* KackyWatcher.poll_once, one whole cycle.  now_ts is time.time() at its  *)
(* start, rows what fetch_schedule returns if it is called, elapsed the    *)
(* seconds the fetch took: update_from_fetch and format_summary read       *)
(* time.time() again and get now_ts + elapsed.                             *)
(***************************************************************************)
\* poll_once up to the decision to fetch: lines before fetch_schedule()
PollDecide(w0, st0, now_ts, force_fetch, tracking, changed) ==
    LET \* reload_status
        w1 == reload_status(w0, now_ts, tracking, changed)
        watched_ == w1.watched
        \* countdown and the ETA-expiry step
        st1 == countdown_etas(st0, 1)
        expired_etas == ExpiredEtas(st1, watched_, now_ts)
        promo_notes == { <<mn, PromotionServer(st1, mn)>> :
                           mn \in expired_etas \ st1.notified_live }
        st2 == PromoteAll(st1, expired_etas, now_ts)
        w2 == [w1 EXCEPT !.live_map_resync_times =
                  [mn \in (DOMAIN @) \cup expired_etas |->
                      IF mn \in expired_etas THEN now_ts + ResyncDelay
                      ELSE @[mn]]]
        \* the fetch decision
        decision == IF force_fetch
                    THEN [should |-> TRUE, reason |-> "forced",
                          timer |-> w2.periodic_refetch_time]
                    ELSE should_fetch(w2, st2, now_ts)
        w3 == [w2 EXCEPT !.periodic_refetch_time = decision.timer]
    IN  [watcher |-> w3,
         state |-> st2,
         asked |-> w2,
         policy |-> IF force_fetch THEN "not_called" ELSE decision.reason,
         fetch_reason |-> decision.reason,
         did_fetch |-> decision.should
                         /\ ~RateLimited(w3, now_ts, decision.reason),
         promoted |-> expired_etas,
         notes |-> promo_notes]

\* poll_once from the fetch on; fetched is what fetch_schedule() did
PollFinish(d, now_ts, fetched, elapsed) ==
    LET w3 == d.watcher
        st2 == d.state
        watched_ == w3.watched
        fetch_reason == d.fetch_reason
        did_fetch == d.did_fetch
        raised == did_fetch /\ fetched.raised
        rows == IF did_fetch /\ ~raised THEN fetched.rows ELSE <<>>
        \* the try block: the bookkeeping and, without rows, the warning
        tried == AfterFetchAttempt(w3, rows, now_ts)
        warning == IF did_fetch /\ ~raised /\ Len(rows) = 0
                   THEN StalenessWarning(tried, now_ts)
                   ELSE "none"
        w4 == IF ~did_fetch THEN w3
              ELSE IF raised THEN AfterFetchException(w3, now_ts)
              ELSE IF warning = "OverflowError"
              THEN AfterFetchException(tried, now_ts)
              ELSE tried
        \* the state update after a fetch
        st3 == IF did_fetch
               THEN update_from_fetch(st2, rows, watched_, now_ts + elapsed)
               ELSE st2
        w5 == IF did_fetch /\ fetch_reason = "live_resync"
              THEN [w4 EXCEPT !.live_map_resync_times =
                       [mn \in { k \in DOMAIN @ : now_ts < @[k] } |-> @[mn]]]
              ELSE w4
        w6 == IF did_fetch
              THEN [w5 EXCEPT !.periodic_refetch_time =
                       TimerAfterFetch(w5, st3, now_ts, fetch_reason)]
              ELSE w5
        \* live windows that ran out
        gone == { mn \in DOMAIN st3.live_until_by_map :
                    st3.live_until_by_map[mn] <= now_ts }
        st4 == ExpireLive(st3, now_ts)
        w7 == [w6 EXCEPT !.live_map_resync_times =
                  [mn \in (DOMAIN @) \ gone |-> @[mn]]]
        \* the live notifications from local state
        all_live_maps == AllLiveMaps(st4, watched_, now_ts)
        newly == all_live_maps \ st4.notified_live
        live_notes == { <<mn, JoinSorted(Get(st4.live_servers_by_map, mn, {}))>> :
                          mn \in newly }
        st5 == [st4 EXCEPT !.notified_live = @ \cup newly]
        w8 == [w7 EXCEPT !.live_map_resync_times =
                  [mn \in (DOMAIN @) \cup newly |->
                      IF mn \in newly THEN now_ts + ResyncDelay ELSE @[mn]]]
        \* format_summary([], False, all_live_maps or None)
        now2 == now_ts + elapsed
        live_summary == LiveSummary(st5, watched_, all_live_maps, now2)
        st6 == LiveSummaryState(st5, watched_, all_live_maps, now2)
        w9 == [w8 EXCEPT !.watchlist_added = FALSE]
    IN  [watcher |-> w9,
         state |-> st6,
         now_ts |-> now_ts,
         policy |-> d.policy,
         fetch_reason |-> fetch_reason,
         did_fetch |-> did_fetch,
         promoted |-> d.promoted,
         notes |-> d.notes \cup live_notes,
         live_summary |-> live_summary,
         rows |-> rows,
         raised |-> raised,
         warning |-> warning,
         end_ts |-> now2]

InitialOut ==
    [now_ts |-> 0, policy |-> "not_called", fetch_reason |-> "none",
     did_fetch |-> FALSE, retry_seen |-> {}, promoted |-> {}, notes |-> {},
     live_summary |-> {}, fetch_failed |-> FALSE, raised |-> FALSE,
     warning |-> "none", arrived |-> FALSE]

InitialHist ==
    [ntf |-> [m \in Maps |-> 0],
     phase |-> [m \in Maps |-> 0],
     any_attempt |-> FALSE,
     any_success |-> FALSE,
     last_attempt |-> 0,
     prev_attempt |-> 0,
     unknown_since |-> 0,
     failed_run |-> 0,
     promos |-> [m \in Maps |-> 0]]

\* the notifications for map m in one poll cycle
NotesFor(notes, m) == { n \in notes : n[1] = m }

\* m is watched and has a live window that outlasts the cycle's timestamp
LiveAtEnd(r, m) ==
    /\ m \in r.watcher.watched
    /\ m \in DOMAIN r.state.live_until_by_map
    /\ r.state.live_until_by_map[m] > r.now_ts

\* the snapshot of the cycle holds a row about map m
Reports(rows, m) ==
    \E i \in 1..Len(rows) :
        IntOk(rows[i].map_number) /\ DigitsValue(rows[i].map_number) = m

\* how often the ETA-expiry step has promoted m since a snapshot last held
\* a row about it (counted up to 3)
PromotionsSoFar(h, r, m) ==
    LET one == IF m \in r.promoted THEN 1 ELSE 0
    IN  IF Reports(r.rows, m) THEN one
        ELSE IF h.promos[m] + one > 3 THEN 3 ELSE h.promos[m] + one

\* notifications for m, counted until its second live episode has begun
NotesSoFar(h, r, m) ==
    IF h.phase[m] = 3 THEN h.ntf[m]
    ELSE h.ntf[m] + Cardinality(NotesFor(r.notes, m))

\* 0 not yet live; 1 live and notified once; 2 no longer live; 3 live again
NextPhase(h, r, m) ==
    CASE h.phase[m] = 0 ->
           IF LiveAtEnd(r, m) /\ NotesSoFar(h, r, m) = 1 THEN 1 ELSE 0
      [] h.phase[m] = 1 ->
           IF m \notin DOMAIN r.state.live_until_by_map THEN 2 ELSE 1
      [] h.phase[m] = 2 -> IF LiveAtEnd(r, m) THEN 3 ELSE 2
      [] OTHER -> 3

\* the maps for which the snapshot held a row flagged needs_retry
RetrySeen(rows) ==
    { DigitsValue(rows[i].map_number) :
        i \in { j \in 1..Len(rows) : rows[j].needs_retry } }

\* since when some watched map has had no data at all (0: none has)
UnknownSince(h, r) ==
    IF HasUnknownTimeMaps(r.watcher, r.state)
    THEN IF h.unknown_since = 0 THEN r.now_ts ELSE h.unknown_since
    ELSE 0

\* the fetch of this cycle raised or returned no rows
FetchFailed(r) == r.did_fetch /\ (r.raised \/ Len(r.rows) = 0)

\* fetch attempts that failed since the last one that returned rows
FailedRun(h, r) ==
    IF ~r.did_fetch THEN h.failed_run
    ELSE IF FetchFailed(r) THEN h.failed_run + 1
    ELSE 0

Init ==
    /\ state = InitialState
    /\ file_tracking \in SUBSET Maps
    /\ watcher = InitialWatcher(file_tracking)
    /\ clock = StartTime - 1
    /\ immediate_fetch_event = FALSE
    /\ file_changed = FALSE
    /\ file_server_uptimes = EmptyDict
    /\ gui = InitialGui
    /\ changes = 0
    /\ out = InitialOut
    /\ hist = InitialHist

\* what the GUI thread may do while fetch_schedule() is running: nothing
\* (the empty tuple), or on_checkbox_change with a new set of checked maps
DuringFetch(d, elapsed, during) ==
    IF during /\ d.did_fetch /\ elapsed >= 1 /\ changes < MaxWatchChanges
    THEN {<<>>} \cup { <<new_tracking>> :
                         new_tracking \in (SUBSET Maps) \ {d.watcher.watched} }
    ELSE {<<>>}

\* poll_once as on_checkbox_change leaves it when it ran during the fetch
AfterArrival(d, arrival) ==
    IF Len(arrival) = 0 THEN d
    ELSE [d EXCEPT !.watcher = [@ EXCEPT !.watched = arrival[1],
                                         !.watchlist_added = TRUE]]

\* one iteration of the watcher loop (KackyWatcher.run, gui watcher_loop):
\* poll_once with what fetch_schedule may return and the time it may take;
\* during: whether a check box may be toggled while the fetch is running
PollStep(until, snapshots, fetch_times, during) ==
    /\ clock < until
    /\ \E now_ts \in {clock + 1} :
       \E d \in {PollDecide(watcher, state, now_ts, immediate_fetch_event,
                            file_tracking, file_changed)} :
       \E fetched \in (IF d.did_fetch THEN FetchOutcomes(snapshots)
                                        ELSE {NoFetch}),
          elapsed \in (IF d.did_fetch THEN fetch_times ELSE {0}) :
       \E arrival \in DuringFetch(d, elapsed, during) :
       \E r \in {PollFinish(AfterArrival(d, arrival), now_ts, fetched, elapsed)} :
             /\ state' = r.state
             /\ watcher' = r.watcher
             /\ clock' = r.end_ts
             /\ immediate_fetch_event' = (Len(arrival) > 0)
             /\ changes' = IF Len(arrival) > 0 THEN changes + 1 ELSE changes
             /\ file_changed' =
                    (file_changed /\ ~ReloadConsumes(watcher, now_ts, file_changed))
             /\ out' = [now_ts |-> r.now_ts, policy |-> r.policy,
                        fetch_reason |-> r.fetch_reason,
                        did_fetch |-> r.did_fetch,
                        retry_seen |-> RetrySeen(r.rows),
                        promoted |-> r.promoted,
                        notes |-> r.notes, live_summary |-> r.live_summary,
                        fetch_failed |-> FetchFailed(r),
                        raised |-> r.raised,
                        warning |-> r.warning,
                        arrived |-> (Len(arrival) > 0)]
             /\ hist' =
                    [ntf |-> [m \in Maps |-> NotesSoFar(hist, r, m)],
                     phase |-> [m \in Maps |-> NextPhase(hist, r, m)],
                     any_attempt |-> (hist.any_attempt \/ r.did_fetch),
                     any_success |->
                          (hist.any_success \/ (r.did_fetch /\ Len(r.rows) > 0)),
                     last_attempt |->
                          IF r.did_fetch THEN now_ts ELSE hist.last_attempt,
                     prev_attempt |-> hist.last_attempt,
                     unknown_since |-> UnknownSince(hist, r),
                     failed_run |-> FailedRun(hist, r),
                     promos |-> [m \in Maps |-> PromotionsSoFar(hist, r, m)]]
             /\ gui' = [last_countdown_update |-> r.end_ts,
                        live_maps |-> r.live_summary,
                        pending_refresh |-> TRUE]
    /\ UNCHANGED <<file_tracking, file_server_uptimes>>

\* the loop when nothing happens on the GUI thread while a fetch is running
PollWith(until, snapshots, fetch_times) ==
    PollStep(until, snapshots, fetch_times, FALSE)

Poll == PollWith(StartTime + Horizon, Snapshots, 0..MaxFetchTime)

\* the same loop followed for LongHorizon seconds, fetches taking no time
LongPoll == PollWith(StartTime + LongHorizon, LongSnapshots, {0})

\* gui on_checkbox_change: a tracking check box toggled
CheckboxChange(until) ==
    /\ changes < MaxWatchChanges /\ clock < until
    /\ \E new_tracking \in SUBSET Maps :
         /\ new_tracking # watcher.watched
         /\ watcher' = [watcher EXCEPT !.watched = new_tracking,
                                       !.watchlist_added = TRUE]
    /\ immediate_fetch_event' = TRUE
    /\ changes' = changes + 1
    /\ UNCHANGED <<state, clock, file_tracking, file_changed,
                   file_server_uptimes, gui, out, hist>>

\* the map status file rewritten: by gui save_map_status, which also writes
\* the watcher's server uptimes, or by the user, who leaves them alone
FileWritten(until) ==
    /\ changes < MaxWatchChanges /\ clock < until
    /\ \E tracking \in SUBSET Maps :
         /\ tracking # file_tracking
         /\ file_tracking' = tracking
    /\ file_server_uptimes' \in {file_server_uptimes, state.server_uptime_seconds}
    /\ file_changed' = TRUE
    /\ changes' = changes + 1
    /\ UNCHANGED <<state, watcher, clock, immediate_fetch_event, gui, out, hist>>

on_checkbox_change == CheckboxChange(StartTime + UserSeconds)

StatusFileWritten == FileWritten(StartTime + UserSeconds)

LongCheckboxChange == CheckboxChange(StartTime + LongUserSeconds)

LongFileWritten == FileWritten(StartTime + LongUserSeconds)

Next == Poll \/ on_checkbox_change \/ StatusFileWritten

Spec == Init /\ [][Next]_vars

LongNext == LongPoll \/ LongCheckboxChange \/ LongFileWritten

LongSpec == Init /\ [][LongNext]_vars

FetchMaps == {1, 2}

\* records for update_from_fetch: rows as the parser builds them, and
\* records with a map number that is no number, an ETA text that is no
\* time, no server label, or no remaining time
FetchPool ==
    UNION {
        { LiveRow(m, "Server 1", <<"2">>),
          RetryRow(m, "Server 1"),
          NextRow(m, "Server 1", <<"0", ":", "0", "1">>),
          NextRow(m, "Server 2", <<"0", ":", "0", "2">>) } : m \in FetchMaps }
    \cup { [NextRow(1, "Server 1", <<"0", ":", "0", "1">>)
               EXCEPT !.map_number = <<"x">>],
           NextRow(1, "Server 1", <<"s", "o", "o", "n">>),
           NextRow(1, "", <<"0", ":", "0", "2">>),
           LiveRow(1, "", <<"2">>),
           LiveRow(2, "Server 1", <<>>) }

FetchSnapshots ==
    UNION { { rows \in [1..n -> FetchPool] :
                \A i, j \in 1..n : rows[i] = rows[j] => i = j } :
            n \in 0..MaxFetchRows }

\* the snapshots a new WatcherState has taken up a second before: they
\* leave a map unknown, queued (on one or two servers) or live
FetchBefore ==
    { <<>>,
      <<NextRow(1, "Server 1", <<"0", ":", "0", "1">>),
        NextRow(1, "Server 2", <<"0", ":", "0", "2">>)>>,
      <<NextRow(1, "Server 2", <<"0", ":", "0", "2">>),
        NextRow(1, "Server 1", <<"0", ":", "0", "1">>)>>,
      <<NextRow(1, "Server 2", <<"0", ":", "0", "2">>)>>,
      <<LiveRow(1, "Server 1", <<"2">>)>>,
      <<LiveRow(1, "Server 1", <<"2">>),
        NextRow(2, "Server 2", <<"0", ":", "0", "2">>)>>,
      <<LiveRow(2, "Server 1", <<"2">>),
        NextRow(1, "Server 1", <<"0", ":", "0", "1">>)>>,
      <<NextRow(1, "Server 1", <<"0", ":", "0", "1">>),
        NextRow(2, "Server 2", <<"0", ":", "0", "2">>)>> }

\* a WatcherState that took up a snapshot and counted down one second,
\* both maps watched
FetchInit ==
    /\ \E rows \in FetchBefore :
          state = countdown_etas(
                      update_from_fetch(InitialState, rows, FetchMaps,
                                        StartTime - 1), 1)
    /\ file_tracking = FetchMaps
    /\ watcher = InitialWatcher(file_tracking)
    /\ clock = StartTime
    /\ immediate_fetch_event = FALSE
    /\ file_changed = FALSE
    /\ file_server_uptimes = EmptyDict
    /\ gui = InitialGui
    /\ changes = 0
    /\ out = [op |-> "none"]
    /\ hist = InitialHist

\* update_from_fetch called with the next snapshot
FetchUpdate ==
    /\ out.op = "none"
    /\ \E rows \in FetchSnapshots :
         /\ state' = update_from_fetch(state, rows, watcher.watched, clock)
         /\ out' = [op |-> "update_from_fetch", rows |-> rows]
    /\ UNCHANGED <<watcher, clock, immediate_fetch_event, file_tracking,
                   file_changed, file_server_uptimes, gui, changes, hist>>

FetchSpec == FetchInit /\ [][FetchUpdate]_vars

\* the watcher loop with check boxes toggled also while a fetch is running
FlightPoll == PollStep(StartTime + Horizon, Snapshots, 0..MaxFetchTime, TRUE)

FlightNext == FlightPoll \/ on_checkbox_change \/ StatusFileWritten

FlightSpec == Init /\ [][FlightNext]_vars

\* gui countdown_update, the GUI thread's timer callback, run while the
\* watcher thread sleeps or is about to poll: a second after the last poll
\* ended it counts the ETAs down itself; it always schedules a refresh
countdown_update(until) ==
    /\ clock < until
    /\ \E now \in {clock, clock + 1} :
         IF gui.last_countdown_update > 0
         THEN IF now - gui.last_countdown_update >= 1
              THEN /\ state' = countdown_etas(state, 1)
                   /\ gui' = [gui EXCEPT !.last_countdown_update = now,
                                         !.pending_refresh = TRUE]
              ELSE /\ state' = state
                   /\ gui' = [gui EXCEPT !.pending_refresh = TRUE]
         ELSE /\ state' = state
              /\ gui' = [gui EXCEPT !.last_countdown_update = now,
                                    !.pending_refresh = TRUE]
    /\ UNCHANGED <<watcher, clock, immediate_fetch_event, file_tracking,
                   file_changed, file_server_uptimes, changes, out, hist>>

\* gui _process_refresh and _refresh_display, on the GUI thread: the live
\* section is built by get_live_summary from the last summary's live maps
process_refresh(until) ==
    /\ clock < until
    /\ gui.pending_refresh
    /\ \E now_ts \in {clock, clock + 1} :
         state' = LiveSummaryState(state, watcher.watched, gui.live_maps, now_ts)
    /\ gui' = [gui EXCEPT !.pending_refresh = FALSE]
    /\ UNCHANGED <<watcher, clock, immediate_fetch_event, file_tracking,
                   file_changed, file_server_uptimes, changes, out, hist>>

GuiCountdown == countdown_update(StartTime + Horizon)

GuiRefresh == process_refresh(StartTime + Horizon)

\* the watcher thread and the GUI thread side by side
GuiNext == Poll \/ on_checkbox_change \/ StatusFileWritten
              \/ GuiCountdown \/ GuiRefresh

GuiSpec == Init /\ [][GuiNext]_vars

\* str(d) of one decimal digit
DigitChar(d) ==
    CASE d = 0 -> "0" [] d = 1 -> "1" [] d = 2 -> "2" [] d = 3 -> "3"
      [] d = 4 -> "4" [] d = 5 -> "5" [] d = 6 -> "6" [] d = 7 -> "7"
      [] d = 8 -> "8" [] d = 9 -> "9"

\* str(n) of a natural number
RECURSIVE IntText(_)
IntText(n) ==
    IF n < 10 THEN <<DigitChar(n)>>
    ELSE IntText(n \div 10) \o <<DigitChar(n % 10)>>

\* format_summary: f"{sec//60}:{sec%60:02d}"
FormatEta(sec) ==
    IntText(sec \div 60) \o <<":", DigitChar((sec % 60) \div 10),
                              DigitChar(sec % 10)>>

\* format_summary.eta_to_seconds
eta_to_seconds(eta) == IF EtaMatch(eta) THEN EtaSeconds(eta) ELSE UnknownEta

\* format_summary: one row taken into earliest_eta_by_map
EarliestEtaRow(earliest, r, watched_) ==
    IF ~IntOk(r.map_number) THEN earliest
    ELSE LET mn == DigitsValue(r.map_number)
         IN  IF mn \notin watched_ \/ r.is_live \/ Len(r.eta) = 0 THEN earliest
             ELSE IF \/ mn \notin DOMAIN earliest
                     \/ eta_to_seconds(r.eta) < eta_to_seconds(earliest[mn].eta)
                  THEN Put(earliest, mn, [eta |-> r.eta, server |-> r.server])
                  ELSE earliest

\* format_summary: earliest_eta_by_map after the first n rows
RECURSIVE EarliestEtaByMap(_, _, _)
EarliestEtaByMap(rows, n, watched_) ==
    IF n = 0 THEN EmptyDict
    ELSE EarliestEtaRow(EarliestEtaByMap(rows, n - 1, watched_), rows[n], watched_)

\* a tracked line "- {mn} will be live in {eta} on {server}" by its parts;
\* server "" is a line without " on ..."
Line(mn, eta, server) == [map |-> mn, eta |-> eta, server |-> server]

\* variant: a map without data carries 0
NonLiveLine_zero(st, earliest, did_fetch, mn) ==
    IF mn \in DOMAIN st.upcoming_by_map /\ Len(st.upcoming_by_map[mn]) > 0
    THEN LET first == st.upcoming_by_map[mn][1]
         IN  <<first[2], Line(mn, FormatEta(first[2]), first[1])>>
    ELSE IF mn \in DOMAIN st.eta_seconds_by_map
    THEN LET sec == st.eta_seconds_by_map[mn]
         IN  <<sec, Line(mn, FormatEta(sec), Get(st.server_by_map, mn, ""))>>
    ELSE <<0, Line(mn, <<"unknown">>, "")>>

\* format_summary: the (eta_sec, line) entry of a watched map that is not in
\* the live list
NonLiveLine(st, earliest, did_fetch, mn) ==
    IF did_fetch /\ mn \in DOMAIN earliest
    THEN <<eta_to_seconds(earliest[mn].eta),
           Line(mn, earliest[mn].eta, earliest[mn].server)>>
    ELSE IF mn \in DOMAIN st.upcoming_by_map /\ Len(st.upcoming_by_map[mn]) > 0
    THEN LET first == st.upcoming_by_map[mn][1]
         IN  <<first[2], Line(mn, FormatEta(first[2]), first[1])>>
    ELSE IF mn \in DOMAIN st.eta_seconds_by_map
    THEN LET sec == st.eta_seconds_by_map[mn]
         IN  <<sec, Line(mn, FormatEta(sec), Get(st.server_by_map, mn, ""))>>
    ELSE <<UnknownEta, Line(mn, <<"unknown">>, "")>>

\* format_summary: the entries for the upcoming servers of a live map
UpcomingLines(st, mn) ==
    LET items == Get(st.upcoming_by_map, mn, <<>>)
    IN  [i \in 1..Len(items) |->
            <<items[i][2], Line(mn, FormatEta(items[i][2]), items[i][1])>>]

\* the lists of a list of maps, one after the other
RECURSIVE UpcomingLinesOf(_, _)
UpcomingLinesOf(st, maps) ==
    IF Len(maps) = 0 THEN <<>>
    ELSE UpcomingLines(st, Head(maps)) \o UpcomingLinesOf(st, Tail(maps))

\* format_summary: tracked_lines as returned
TrackedLines(st, watched_, rows, did_fetch, live_summary) ==
    LET earliest == EarliestEtaByMap(rows, Len(rows), watched_)
        non_live == SortedList(watched_ \ { live_summary[i] : i \in 1..Len(live_summary) })
    IN  [i \in 1..Len(non_live) |-> NonLiveLine(st, earliest, did_fetch, non_live[i])]
            \o UpcomingLinesOf(st, live_summary)

\* format_summary(rows, did_fetch, live_now) with live_now given
format_summary_live(st, watched_, rows, did_fetch, live_now, now_ts) ==
    LET r == get_live_summary(st, watched_, live_now, now_ts)
    IN  [state |-> r.state,
         live_summary |-> r.live_summary,
         tracked_lines |-> TrackedLines(r.state, watched_, rows, did_fetch,
                                        r.live_summary)]

\* format_summary without live_now: the live set is built from the rows
\* when a fetch was made, and is empty otherwise
SnapshotLive(rows, watched_, did_fetch) ==
    IF did_fetch
    THEN { mn \in { DigitsValue(rows[i].map_number) :
                       i \in { j \in 1..Len(rows) : rows[j].is_live } } :
             mn \in watched_ /\ mn > 0 }
    ELSE {}

\* format_summary(rows, did_fetch), live_now being None
format_summary(st, watched_, rows, did_fetch, now_ts) ==
    format_summary_live(st, watched_, rows, did_fetch,
                        SnapshotLive(rows, watched_, did_fetch), now_ts)

SummaryMaps == {1, 2, 3}

\* the live rows and queued rows a snapshot may hold for the summary
SummaryRows ==
    { LiveRow(m, "Server 1", <<"2">>) : m \in SummaryMaps }
        \cup { NextRow(m, "Server 2", <<"0", ":", "0", "2">>) : m \in SummaryMaps }

SummarySnapshots ==
    UNION { { rows \in [1..n -> SummaryRows] :
                \A i, j \in 1..n : i < j =>
                    DigitsValue(rows[i].map_number) < DigitsValue(rows[j].map_number) } :
            n \in 0..MaxSummaryRows }

\* live windows of some maps: run out, running out now, or still running
SummaryWindows ==
    UNION { [L -> {StartTime - 1, StartTime, StartTime + 1}] :
            L \in SUBSET SummaryMaps }

SummaryInit ==
    /\ \E until \in SummaryWindows :
          state = [InitialState EXCEPT
                     !.live_until_by_map = until,
                     !.live_servers_by_map = [mn \in DOMAIN until |-> {"Server 1"}]]
    /\ file_tracking = {}
    /\ watcher = InitialWatcher(file_tracking)
    /\ clock = StartTime
    /\ immediate_fetch_event = FALSE
    /\ file_changed = FALSE
    /\ file_server_uptimes = EmptyDict
    /\ gui = InitialGui
    /\ changes = 0
    /\ out = [op |-> "none"]
    /\ hist = InitialHist

\* format_summary called for some watch set, with or without a snapshot
Summarize ==
    /\ \E watched_ \in SUBSET SummaryMaps, did_fetch \in BOOLEAN,
          rows \in SummarySnapshots :
          \E r \in {format_summary(state, watched_, rows, did_fetch, clock)} :
             /\ (did_fetch \/ Len(rows) = 0)
             /\ state' = r.state
             /\ out' = [op |-> "format_summary",
                        watched |-> watched_,
                        did_fetch |-> did_fetch,
                        live_now |-> SnapshotLive(rows, watched_, did_fetch),
                        live_summary |-> r.live_summary]
    /\ UNCHANGED <<watcher, clock, immediate_fetch_event, file_tracking,
                   file_changed, file_server_uptimes, gui, changes, hist>>

SummarySpec == SummaryInit /\ [][Summarize]_vars

\* remaining times seen on live rows, up to the parser's 99:59
ObservedTimes == {400, 598, 630, 658, 1150, 1200}

\* a call of update_server_uptime, as update_from_fetch makes one for the
\* remaining time of a live row
ObserveUptime ==
    /\ \E server \in Servers, observed_remaining_time \in ObservedTimes :
         /\ state' = update_server_uptime(state, server, observed_remaining_time)
         /\ out' = [op |-> "update_server_uptime",
                    server |-> server,
                    observed |-> observed_remaining_time,
                    before |-> get_server_uptime(state, server),
                    after |-> get_server_uptime(state', server)]
    /\ UNCHANGED <<watcher, clock, immediate_fetch_event, file_tracking,
                   file_changed, file_server_uptimes, gui, changes, hist>>

\* gui save_map_status: the status file written with the watcher's uptimes
SaveMapStatus ==
    /\ file_server_uptimes' = state.server_uptime_seconds
    /\ file_changed' = TRUE
    /\ out' = [op |-> "save_map_status"]
    /\ UNCHANGED <<state, watcher, clock, immediate_fetch_event, file_tracking,
                   gui, changes, hist>>

\* the program started again: KackyWatcher.__init__ builds a new
\* WatcherState and reads the tracking list of the status file
Restart ==
    /\ state' = InitialState
    /\ watcher' = InitialWatcher(file_tracking)
    /\ immediate_fetch_event' = FALSE
    /\ file_changed' = FALSE
    /\ gui' = InitialGui
    /\ out' = [op |-> "restart"]
    /\ UNCHANGED <<clock, file_tracking, file_server_uptimes, changes, hist>>

UptimeNext == ObserveUptime \/ SaveMapStatus \/ Restart

\* the program just started, nothing observed or saved yet
UptimeInit ==
    /\ state = InitialState
    /\ file_tracking \in SUBSET Maps
    /\ watcher = InitialWatcher(file_tracking)
    /\ clock = StartTime
    /\ immediate_fetch_event = FALSE
    /\ file_changed = FALSE
    /\ file_server_uptimes = EmptyDict
    /\ gui = InitialGui
    /\ changes = 0
    /\ out = [op |-> "none"]
    /\ hist = InitialHist

UptimeSpec == UptimeInit /\ [][UptimeNext]_vars

\* the same loop while the site cannot be reached: every fetch_schedule()
\* returns no rows or raises
OutagePoll == PollWith(StartTime + OutageHorizon, {<<>>}, {0})

OutageSpec == Init /\ [][OutagePoll]_vars

(***************************************************************************)
(* Properties                                                              *)
(***************************************************************************)
\* a poll cycle is the only step that moves the clock
IsPoll == clock' # clock

\* m has a live window whose expiry is after time t
ActiveAt(st, m, t) ==
    m \in DOMAIN st.live_until_by_map /\ st.live_until_by_map[m] > t

\* C1: no map has both a tracked ETA and a live window that is still running
C1_MutualExclusion ==
    \A m \in DOMAIN state.eta_seconds_by_map : ~ActiveAt(state, m, clock)

\* C2: a map that was live and notified, stopped being live and is live again
\* has been notified exactly twice
C2_ReNotified ==
    \A m \in Maps : hist.phase[m] = 3 => hist.ntf[m] = 2

\* C3: a watched, tracked map without a live window whose ETA reaches 0 in a cycle is
\* promoted (its ETA removed) and notified exactly once, and a map that stays
\* live through a cycle is not notified again
C3_SelfActualizing ==
    [][IsPoll =>
        \A m \in watcher'.watched :
          /\ ( /\ m \in DOMAIN state.eta_seconds_by_map
               /\ state.eta_seconds_by_map[m] = 1
               /\ m \notin DOMAIN state.live_until_by_map )
             => /\ m \in out'.promoted
                /\ Cardinality(NotesFor(out'.notes, m)) = 1
                /\ m \notin DOMAIN state'.eta_seconds_by_map
          /\ ( /\ ActiveAt(state, m, clock)
               /\ m \in state.notified_live
               /\ m \in DOMAIN state'.live_until_by_map )
             => NotesFor(out'.notes, m) = {}]_vars

\* the servers whose per-server ETA for m reaches zero in the next countdown
ZeroServers(st, m) ==
    LET items == Get(st.upcoming_by_map, m, <<>>)
    IN  { items[i][1] : i \in { j \in 1..Len(items) : items[j][2] <= 1 } }

\* C4: a map promoted in a cycle without a fetch because the ETA of exactly
\* one server S reached zero is live on S, is notified once as (map, S), and
\* has S removed from its per-server list
C4_PromotionNamesServer ==
    [][(IsPoll /\ ~out'.did_fetch) =>
        \A m \in out'.promoted : \A S \in ZeroServers(state, m) :
           ( /\ ZeroServers(state, m) = {S}
             /\ m \notin state.notified_live )
           => /\ m \in out'.live_summary
              /\ m \in DOMAIN state'.live_servers_by_map
              /\ S \in state'.live_servers_by_map[m]
              /\ NotesFor(out'.notes, m) = {<<m, S>>}
              /\ ~HasServer(Get(state'.upcoming_by_map, m, <<>>), S)]_vars

\* what countdown_etas(d) must do to st: the same keys and servers, every ETA
\* e replaced by e - d, or by 0 where e - d would be negative
CountdownLaw(st, d) ==
    LET st1 == countdown_etas(st, d)
    IN  /\ DOMAIN st1.eta_seconds_by_map = DOMAIN st.eta_seconds_by_map
        /\ \A mn \in DOMAIN st.eta_seconds_by_map :
              LET e == st.eta_seconds_by_map[mn]
                  e1 == st1.eta_seconds_by_map[mn]
              IN  e1 >= 0 /\ e1 <= e /\ (e >= d => e1 = e - d) /\ (e < d => e1 = 0)
        /\ DOMAIN st1.upcoming_by_map = DOMAIN st.upcoming_by_map
        /\ \A mn \in DOMAIN st.upcoming_by_map :
              /\ Len(st1.upcoming_by_map[mn]) = Len(st.upcoming_by_map[mn])
              /\ \A i \in 1..Len(st.upcoming_by_map[mn]) :
                    LET t == st.upcoming_by_map[mn][i][2]
                        t1 == st1.upcoming_by_map[mn][i][2]
                    IN  /\ st1.upcoming_by_map[mn][i][1] = st.upcoming_by_map[mn][i][1]
                        /\ t1 >= 0 /\ t1 <= t
                        /\ (t >= d => t1 = t - d) /\ (t < d => t1 = 0)

\* C5: countdown_etas(d) replaces every ETA e by max(0, e - d), and over a poll
\* cycle without a fetch no ETA becomes negative and none increases
C5_MonotonicCountdown ==
    [][ /\ \A d \in 0..MaxDecrement : CountdownLaw(state, d) /\ CountdownLaw(state', d)
        /\ (IsPoll /\ ~out'.did_fetch) =>
             /\ \A mn \in DOMAIN state'.eta_seconds_by_map :
                   /\ mn \in DOMAIN state.eta_seconds_by_map
                   /\ state'.eta_seconds_by_map[mn] >= 0
                   /\ state'.eta_seconds_by_map[mn] <= state.eta_seconds_by_map[mn]
             /\ \A mn \in DOMAIN state'.upcoming_by_map :
                   /\ mn \in DOMAIN state.upcoming_by_map
                   /\ \A i \in 1..Len(state'.upcoming_by_map[mn]) :
                         LET it == state'.upcoming_by_map[mn][i]
                         IN  /\ HasServer(state.upcoming_by_map[mn], it[1])
                             /\ it[2] >= 0
                             /\ it[2] <= ServerTime(state.upcoming_by_map[mn], it[1])
      ]_vars

\* a cycle without a fetch has counted an ETA down to zero and kept it
C5_Witness ==
    /\ out.now_ts > 0 /\ ~out.did_fetch /\ out.promoted = {}
    /\ \/ \E mn \in DOMAIN state.eta_seconds_by_map :
             state.eta_seconds_by_map[mn] = 0
       \/ \E mn \in DOMAIN state.upcoming_by_map :
             \E i \in 1..Len(state.upcoming_by_map[mn]) :
                state.upcoming_by_map[mn][i][2] = 0

\* remaining_time values a placeholder row may carry
RetryRemainings == { <<>>, <<"1">>, <<"6", "0", "0">>, <<"6", "6", "0">>, <<"x">> }

PlaceholderRow(m, srv, rem) == [RetryRow(m, srv) EXCEPT !.remaining_time = rem]

\* C6: update_from_fetch on a live row flagged needs_retry, whatever its
\* remaining_time, leaves an active live window's expiry and the learned
\* server uptimes as they were
C6_PlaceholderImmunity ==
    \A m \in Maps, srv \in Servers, rem \in RetryRemainings, t \in {clock, clock + 1} :
       LET st1 == update_from_fetch(state, <<PlaceholderRow(m, srv, rem)>>,
                                    watcher.watched, t)
       IN  /\ ActiveAt(state, m, t) =>
                /\ m \in DOMAIN st1.live_until_by_map
                /\ st1.live_until_by_map[m] = state.live_until_by_map[m]
           /\ st1.server_uptime_seconds = state.server_uptime_seconds

\* a fetch brought a placeholder row for watched map 1 while its live window,
\* set in an earlier cycle, was running, and the window is still there
C6_Witness ==
    /\ out.did_fetch /\ 1 \in out.retry_seen /\ 1 \in watcher.watched
    /\ ActiveAt(state, 1, clock)
    /\ state.live_until_by_map[1] = out.now_ts + 1

ExemptReasons == {"initial", "watchlist_added", "forced"}

\* C7: a fetch whose reason is not initial, watchlist_added or forced starts
\* at least MinFetchInterval seconds after the previous fetch attempt
C7_MinimumInterval ==
    (out.did_fetch /\ out.fetch_reason \notin ExemptReasons)
        => out.now_ts - hist.prev_attempt >= MinFetchInterval

\* a live_resync fetch that was due one second after a fetch and was made
\* at the first tick the interval allows
C7_Witness ==
    /\ out.did_fetch /\ out.fetch_reason = "live_resync"
    /\ out.now_ts - hist.prev_attempt = MinFetchInterval

C9_WatchlistAddition ==
    [][IsPoll =>
        LET w1 == reload_status(watcher, out'.now_ts, file_tracking, file_changed)
        IN  /\ ( /\ w1.watchlist_added
                 /\ \E m \in w1.watched :
                       /\ m \notin DOMAIN state.eta_seconds_by_map
                       /\ m \notin DOMAIN state.live_until_by_map )
               => /\ out'.did_fetch
                  /\ out'.policy \notin {"not_called", "initial"}
                         => out'.policy = "watchlist_added"
            /\ ~watcher'.watchlist_added]_vars

Later(a, b) == IF a > b THEN a ELSE b

\* C10: after the initial fetch, while a watched map has no data the clock is
\* never more than 60 s and a tick past both the last fetch and the moment
\* the map lost its data; otherwise never more than 300 s and a tick past
\* the last fetch
C10_PeriodicCeiling ==
    watcher.initial_fetch_done =>
       IF hist.unknown_since > 0
       THEN clock - Later(hist.unknown_since, hist.last_attempt)
               <= PeriodicUnknown + 1
       ELSE clock - hist.last_attempt <= PeriodicStale + 1

WarningMessages == {"no data, last success N s ago", "no data"}

\* C12: a failed fetch that leaves the failure count at 2 or more sends a
\* warning through on_status_update, whether or not a fetch succeeded before
C12_StalenessWarning ==
    (out.fetch_failed /\ watcher.consecutive_fetch_failures >= WarnAfterFailures)
        => out.warning \in WarningMessages

\* C13: while ticks keep occurring a failed fetch is followed by another
\* attempt within the periodic ceiling, and after the initial fetch the
\* periodic timer is not left unarmed beyond the minimum interval that may
\* delay the cycle which arms it again
C13_FetchingGoesOn ==
    /\ hist.failed_run > 0 =>
           clock - hist.last_attempt <= PeriodicStale + MinFetchInterval
    /\ (watcher.initial_fetch_done /\ watcher.periodic_refetch_time = 0) =>
           clock - hist.last_attempt <= MinFetchInterval

\* the decision part of the poll cycle that is about to run
Deciding ==
    PollDecide(watcher, state, clock + 1, immediate_fetch_event,
               file_tracking, file_changed)

\* m is watched, tracked and not live when the policy is asked at now_ts
TrackedNotLive(d, m, now_ts) ==
    /\ m \in d.watcher.watched
    /\ m \in DOMAIN d.state.eta_seconds_by_map
    /\ ~ActiveAt(d.state, m, now_ts)

ThresholdEtas == {1, 55, 60, 61, 65}

ExpiringSoon(d, m, now_ts) ==
    /\ m \in d.watcher.watched
    /\ ActiveAt(d.state, m, now_ts)
    /\ d.state.live_until_by_map[m] <= now_ts + 10

WindowsLeft == {1, 5, 10, 11, 600}

ListSet(l) == { l[i] : i \in 1..Len(l) }
Ascending(l) == \A i, j \in 1..Len(l) : i < j => l[i] < l[j]

\* the watched maps whose live window in st has not run out at time t
WatchedLive(st, watched_, t) == { mn \in watched_ : ActiveAt(st, mn, t) }

\* C16 as stated: after a snapshot the live list is the snapshot's live set
\* within the watch set, empty when the snapshot reports none live; without
\* a snapshot it is the watched maps with a running live window; the list
\* is ascending
C16_SnapshotAuthoritative ==
    [][out'.op = "format_summary" =>
          /\ Ascending(out'.live_summary)
          /\ ListSet(out'.live_summary) =
                 IF out'.did_fetch THEN out'.live_now \cap out'.watched
                 ELSE WatchedLive(state, out'.watched, clock)]_vars

\* C16: when the live set handed over is not empty the live list is that set
\* within the watch set; when it is empty, with or without a snapshot, the
\* list is the watched maps with a running live window; the list is ascending
C16_LiveSummary ==
    [][out'.op = "format_summary" =>
          /\ Ascending(out'.live_summary)
          /\ ListSet(out'.live_summary) =
                 IF out'.live_now # {} THEN out'.live_now \cap out'.watched
                 ELSE WatchedLive(state, out'.watched, clock)]_vars

\* a snapshot reported two of three watched maps live and the list holds
\* the two, in order
C16_Witness ==
    /\ out.op = "format_summary" /\ out.did_fetch
    /\ out.watched = {1, 2, 3}
    /\ out.live_now = {1, 3}
    /\ out.live_summary = <<1, 3>>

\* C17: a call of update_server_uptime never lowers a server's learned uptime
C17_UptimeNeverDecreases ==
    [][out'.op = "update_server_uptime" =>
          \A server \in DOMAIN state.server_uptime_seconds :
              state'.server_uptime_seconds[server]
                  >= state.server_uptime_seconds[server]]_vars

\* the whole minute nearest to r seconds, in seconds; midway between two
\* it is the even one
NearestMinute(r) ==
    CHOOSE M \in { 60 * k : k \in 0..(r \div 60 + 1) } :
        /\ M - r <= 30 /\ r - M <= 30
        /\ (M - r = 30 \/ r - M = 30) => (M \div 60) % 2 = 0

\* C18: with learned uptime U, an observation whose nearest whole minute M
\* is at least U sets the uptime to M; one below 95% of U whose nearest
\* whole minute is below U leaves it; every learned uptime is a positive
\* whole number of minutes
C18_LearningRule ==
    [][out'.op = "update_server_uptime" =>
          LET U == state.server_uptime_seconds[out'.server]
              r == out'.observed
              M == NearestMinute(r)
              after == state'.server_uptime_seconds[out'.server]
          IN  /\ M >= U => after = M
              /\ (100 * r < 95 * U /\ M < U) => after = U
              /\ \A server \in DOMAIN state'.server_uptime_seconds :
                    /\ state'.server_uptime_seconds[server] > 0
                    /\ state'.server_uptime_seconds[server] % 60 = 0
              /\ \A server \in (DOMAIN state.server_uptime_seconds) \ {out'.server} :
                    state'.server_uptime_seconds[server]
                        = state.server_uptime_seconds[server]]_vars

\* 658 s observed on a server with learned uptime 600 s made it 660 s
C18_Witness ==
    /\ out.op = "update_server_uptime"
    /\ out.observed = 658 /\ out.before = 600 /\ out.after = 660
    /\ state.server_uptime_seconds[out.server] = 660

\* C19: after a restart every server has the uptime the status file holds
\* for it
C19_UptimesSurviveRestart ==
    out.op = "restart" =>
        \A server \in DOMAIN file_server_uptimes :
            get_server_uptime(state, server) = file_server_uptimes[server]

\* the fields of the reconciliation state
Reconciliation(st) ==
    <<st.eta_seconds_by_map, st.upcoming_by_map, st.live_until_by_map,
      st.live_servers_by_map, st.notified_live>>

\* C20: only a poll cycle of the watcher thread, which moves the clock on,
\* changes tracked ETAs, per-server ETAs, live windows, live servers or the
\* notified set; the GUI thread's callbacks change none of them
C20_SingleWriter ==
    [][Reconciliation(state') # Reconciliation(state) => clock' > clock]_vars

\* C21: an immediate-fetch request that arrives while a fetch is running is
\* dropped: when that poll cycle ends the signal is not left set to force a
\* further fetch
C21_FetchCoalescing ==
    [][(clock' > clock /\ out'.arrived) => ~immediate_fetch_event']_vars

\* what the state holds about map mn
AboutMap(st, mn) ==
    [eta |-> Get(st.eta_seconds_by_map, mn, -1),
     server |-> Get(st.server_by_map, mn, "-"),
     upcoming |-> Get(st.upcoming_by_map, mn, <<"-">>),
     live_until |-> Get(st.live_until_by_map, mn, -1),
     live_servers |-> Get(st.live_servers_by_map, mn, {"-"})]

\* a record with a map number that is no number, with an ETA text that is
\* no time, or without a server label
BadRecord(r) ==
    \/ ~IntOk(r.map_number)
    \/ ~r.is_live /\ ~EtaMatch(r.eta)
    \/ r.server = ""

\* rows without its i-th record
WithoutRow(rows, i) ==
    SubSeq(rows, 1, i - 1) \o SubSeq(rows, i + 1, Len(rows))

\* C22: a bad record in a snapshot leaves everything the state holds about
\* the other maps, and the learned uptimes, as the same snapshot without
\* that record would
C22_BadRowsIsolated ==
    [][out'.op = "update_from_fetch" =>
          \A i \in 1..Len(out'.rows) :
              BadRecord(out'.rows[i]) =>
                  LET without == update_from_fetch(state, WithoutRow(out'.rows, i),
                                                   watcher.watched, clock)
                  IN  /\ \A mn \in FetchMaps :
                            (IntOk(out'.rows[i].map_number)
                               => mn # DigitsValue(out'.rows[i].map_number))
                            => AboutMap(state', mn) = AboutMap(without, mn)
                      /\ state'.server_uptime_seconds
                            = without.server_uptime_seconds
                      /\ state'.notified_live = without.notified_live]_vars

\* a record whose map number is no number came first in a snapshot and the
\* queued row after it was still taken up
C22_Witness ==
    /\ out.op = "update_from_fetch"
    /\ Len(out.rows) = 2
    /\ ~IntOk(out.rows[1].map_number)
    /\ out.rows[2] = NextRow(2, "Server 2", <<"0", ":", "0", "2">>)
    /\ AboutMap(state, 2).eta = 2

\* C23: when a poll cycle has ended every map in notified_live has a live
\* window that is still running; a map whose window was removed in the
\* cycle has left notified_live in the same cycle
C23_NotificationLedger ==
    \A m \in state.notified_live : ActiveAt(state, m, clock)

\* C24: a map promoted because its ETA reached zero, in a cycle without a
\* fetch, gets a live window that ends a learned server uptime after the
\* cycle's timestamp: the uptime of the server it was queued on
C24_PromotionUsesUptime ==
    [][(IsPoll /\ ~out'.did_fetch) =>
        \A m \in out'.promoted :
            m \in DOMAIN state'.live_until_by_map =>
                state'.live_until_by_map[m] =
                    out'.now_ts
                      + get_server_uptime(state, PromotionServer(state, m))]_vars

\* the state update_from_fetch has reached when it comes to the i-th row
BeforeRow(st, rows, i, now_ts) ==
    ProcessRows(st, SubSeq(rows, 1, i - 1), FetchMaps, now_ts,
                (DOMAIN st.eta_seconds_by_map) \cup (DOMAIN st.live_until_by_map))

\* the i-th row is the only row of the snapshot for its map
OnlyRowOfMap(rows, i) ==
    \A j \in 1..Len(rows) : j # i => rows[j].map_number # rows[i].map_number

\* C25: a live record for a watched map without live window and without
\* tracked prediction, the only record for that map, gives the map a live
\* window: until now + remaining time when that is a number and the record
\* is no transition record, else until now + the server's learned uptime;
\* the record's server joins the map's live servers
C25_FirstSighting ==
    [][out'.op = "update_from_fetch" =>
          \A i \in 1..Len(out'.rows) :
              LET r == out'.rows[i]
                  mn == DigitsValue(r.map_number)
              IN  ( /\ IntOk(r.map_number) /\ mn \in watcher.watched
                    /\ r.is_live /\ r.server # ""
                    /\ OnlyRowOfMap(out'.rows, i)
                    /\ mn \notin DOMAIN state.live_until_by_map
                    /\ mn \notin DOMAIN state.eta_seconds_by_map )
                  => /\ mn \in DOMAIN state'.live_until_by_map
                     /\ state'.live_until_by_map[mn] =
                            IF isdigit(r.remaining_time) /\ ~r.needs_retry
                            THEN clock + DigitsValue(r.remaining_time)
                            ELSE clock + get_server_uptime(state, r.server)
                     /\ mn \in DOMAIN state'.live_servers_by_map
                     /\ r.server \in state'.live_servers_by_map[mn]]_vars

\* C26: when update_from_fetch comes to a live record for a watched map that
\* by then has a tracked prediction and no live window, the map has no live
\* window afterwards and is still tracked
C26_NoFastForward ==
    [][out'.op = "update_from_fetch" =>
          \A i \in 1..Len(out'.rows) :
              LET r == out'.rows[i]
                  mn == DigitsValue(r.map_number)
                  st == BeforeRow(state, out'.rows, i, clock)
              IN  ( /\ IntOk(r.map_number) /\ mn \in watcher.watched
                    /\ r.is_live
                    /\ mn \in DOMAIN st.eta_seconds_by_map
                    /\ mn \notin DOMAIN st.live_until_by_map )
                  => /\ mn \notin DOMAIN state'.live_until_by_map
                     /\ mn \in DOMAIN state'.eta_seconds_by_map]_vars

\* the ETAs a snapshot reports for map mn, with their servers
Reported(rows, mn) ==
    { <<rows[i].server, EtaSeconds(rows[i].eta)>> :
        i \in { j \in 1..Len(rows) :
                  /\ IntOk(rows[j].map_number)
                  /\ DigitsValue(rows[j].map_number) = mn
                  /\ ~rows[j].is_live
                  /\ EtaMatch(rows[j].eta) } }

\* C27: after update_from_fetch the earliest ETA of a tracked watched map
\* the snapshot reports on is the least ETA the snapshot reports for it, and
\* the earliest server is one that reports that ETA
C27_EarliestIsMinimum ==
    [][out'.op = "update_from_fetch" =>
          \A mn \in watcher.watched :
              ( /\ mn \in DOMAIN state'.eta_seconds_by_map
                /\ Reported(out'.rows, mn) # {} )
              => /\ \A p \in Reported(out'.rows, mn) :
                        state'.eta_seconds_by_map[mn] <= p[2]
                 /\ <<state'.server_by_map[mn], state'.eta_seconds_by_map[mn]>>
                        \in Reported(out'.rows, mn)]_vars

\* C28: after update_from_fetch has taken up a not-live record (m, s, e) for
\* a watched map, the only record for that map, the per-server entry for
\* (m, s) is e, also when the entry held before was smaller
C28_PerServerResync ==
    [][out'.op = "update_from_fetch" =>
          \A i \in 1..Len(out'.rows) :
              LET r == out'.rows[i]
                  mn == DigitsValue(r.map_number)
              IN  ( /\ IntOk(r.map_number) /\ mn \in watcher.watched
                    /\ ~r.is_live /\ EtaMatch(r.eta) /\ r.server # ""
                    /\ OnlyRowOfMap(out'.rows, i) )
                  => /\ mn \in DOMAIN state'.upcoming_by_map
                     /\ HasServer(state'.upcoming_by_map[mn], r.server)
                     /\ ServerTime(state'.upcoming_by_map[mn], r.server)
                            = EtaSeconds(r.eta)]_vars

\* a per-server list with one entry per server, ascending by seconds
WellFormedList(items) ==
    /\ \A i, j \in 1..Len(items) : items[i][1] = items[j][1] => i = j
    /\ \A i, j \in 1..Len(items) : i < j => items[i][2] <= items[j][2]

\* C29: every map's per-server list has at most one entry per server and
\* is ascending by seconds, in every state the watcher loop reaches
C29_PerServerList ==
    \A mn \in DOMAIN state.upcoming_by_map :
        WellFormedList(state.upcoming_by_map[mn])

\* a fetch left map 1 queued on both servers, the nearer server first
C29_Witness ==
    /\ out.did_fetch
    /\ 1 \in DOMAIN state.upcoming_by_map
    /\ state.upcoming_by_map[1] = <<<<"Server 1", 1>>, <<"Server 2", 2>>>>

\* live windows as a test sets them: run out, running out now, running
CleanupStates ==
    { [InitialState EXCEPT
         !.live_until_by_map = until,
         !.live_servers_by_map = [mn \in DOMAIN until |-> {"Server 1"}]] :
      until \in SummaryWindows }

\* cleanup_expired_live_windows(t) applied to st removes the windows that
\* end at t or before, with their live servers, and nothing else
CleanupExact(st, t) ==
    LET after == cleanup_expired_live_windows(st, t)
        kept == { mn \in DOMAIN st.live_until_by_map :
                    st.live_until_by_map[mn] > t }
    IN  /\ DOMAIN after.live_until_by_map = kept
        /\ \A mn \in kept :
              after.live_until_by_map[mn] = st.live_until_by_map[mn]
        /\ DOMAIN after.live_servers_by_map
              = (DOMAIN st.live_servers_by_map)
                  \ ((DOMAIN st.live_until_by_map) \ kept)
        /\ \A mn \in DOMAIN after.live_servers_by_map :
              after.live_servers_by_map[mn] = st.live_servers_by_map[mn]
        /\ after.eta_seconds_by_map = st.eta_seconds_by_map
        /\ after.server_by_map = st.server_by_map
        /\ after.upcoming_by_map = st.upcoming_by_map
        /\ after.notified_live = st.notified_live
        /\ after.server_uptime_seconds = st.server_uptime_seconds

\* C30: cleanup_expired_live_windows removes exactly the live windows that
\* have run out, with their live servers; when a poll cycle has ended no
\* live window remains that ends at the cycle's timestamp or before
C30_ExpiredWindowsDeleted ==
    /\ \A mn \in DOMAIN state.live_until_by_map :
          state.live_until_by_map[mn] > out.now_ts
    /\ \A t \in (clock - 1)..(clock + 2) : CleanupExact(state, t)
    /\ out.now_ts = 0 => \A st \in CleanupStates : CleanupExact(st, StartTime)

\* a live window ran out and was deleted: the map, live and notified
\* before, has no window when the cycle has ended
C30_Witness ==
    /\ hist.phase[1] = 2
    /\ 1 \notin DOMAIN state.live_until_by_map
    /\ ~out.did_fetch

\* some ETA of m, tracked or per-server, is at most 1 second
DueNow(st, m) ==
    \/ m \in DOMAIN st.eta_seconds_by_map /\ st.eta_seconds_by_map[m] <= 1
    \/ /\ m \in DOMAIN st.upcoming_by_map
       /\ \E i \in 1..Len(st.upcoming_by_map[m]) : st.upcoming_by_map[m][i][2] <= 1

\* the fetch of the cycle: none, raised, zero rows, or rows
FetchKind(o) ==
    IF ~o.did_fetch THEN "none"
    ELSE IF o.raised THEN "raised"
    ELSE IF o.fetch_failed THEN "zero_rows"
    ELSE "rows"

\* C31: every poll cycle, whatever its fetch did, counts the ETAs down by one
\* second and runs the ETA-expiry step once: the maps promoted are exactly the
\* watched maps that are not live and have an ETA of at most 1 second before
\* the cycle, and in a cycle that brought no rows every other tracked ETA is
\* max(0, e - 1) afterwards
C31_CountdownNeverStalls ==
    [][IsPoll =>
        LET watched_ == reload_status(watcher, clock + 1, file_tracking,
                                      file_changed).watched
        IN  /\ out'.promoted =
                 { m \in watched_ : NotLiveAt(state, m, clock + 1) /\ DueNow(state, m) }
            /\ FetchKind(out') # "rows" =>
                 /\ DOMAIN state'.eta_seconds_by_map =
                        (DOMAIN state.eta_seconds_by_map) \ out'.promoted
                 /\ \A m \in DOMAIN state'.eta_seconds_by_map :
                        state'.eta_seconds_by_map[m] =
                            Max0(state.eta_seconds_by_map[m] - 1)
                 /\ \A m \in (DOMAIN state.upcoming_by_map) \ out'.promoted :
                        /\ m \in DOMAIN state'.upcoming_by_map
                        /\ state'.upcoming_by_map[m] =
                               [i \in 1..Len(state.upcoming_by_map[m]) |->
                                   <<state.upcoming_by_map[m][i][1],
                                     Max0(state.upcoming_by_map[m][i][2] - 1)>>]
      ]_vars

\* a cycle whose fetch raised has counted a tracked ETA down and promoted the map
C31_Witness ==
    /\ out.raised
    /\ out.promoted = {1}
    /\ 1 \notin DOMAIN state.eta_seconds_by_map
    /\ 1 \in DOMAIN state.live_until_by_map

\* the poll cycle that is about to run, every step of it reading the watch
\* set watched_
CycleWith(watched_, fetched, elapsed) ==
    PollFinish(PollDecide([watcher EXCEPT !.watched = watched_], state, clock + 1,
                          immediate_fetch_event, file_tracking, file_changed),
               clock + 1, fetched, elapsed)

\* C32: what a poll cycle leaves behind (state, notifications, live summary)
\* is what some single watch-set value, used by every step of the cycle,
\* produces, also when the GUI thread replaces the watch set during the fetch
C32_WatchSetAtomic ==
    [][IsPoll =>
        \E watched_ \in SUBSET Maps :
        \E fetched \in FetchOutcomes(Snapshots) \cup {NoFetch} :
            LET r == CycleWith(watched_, fetched, clock' - (clock + 1))
            IN  /\ r.state = state'
                /\ r.notes = out'.notes
                /\ r.live_summary = out'.live_summary
      ]_vars

\* the same, for the cycles during which the watch set is not replaced
C32_QuietCycles ==
    [][(IsPoll /\ ~out'.arrived) =>
        \E fetched \in FetchOutcomes(Snapshots) \cup {NoFetch} :
            LET r == CycleWith(watcher.watched, fetched, clock' - (clock + 1))
            IN  /\ r.state = state'
                /\ r.notes = out'.notes
                /\ r.live_summary = out'.live_summary
      ]_vars

\* gui on_checkbox_change's save_timer firing: save_map_status writes the
\* check boxes to the status file half a second after the last toggle.  It
\* is followed here while the watcher loop has not yet taken up the toggle
\* (it is inside poll_once), when the check boxes are watcher.watched
save_timer ==
    /\ immediate_fetch_event
    /\ clock < StartTime + UserSeconds
    /\ file_tracking' = watcher.watched
    /\ file_server_uptimes' = state.server_uptime_seconds
    /\ file_changed' = TRUE
    /\ UNCHANGED <<state, watcher, clock, immediate_fetch_event, gui, changes,
                   out, hist>>

SaveNext == FlightPoll \/ on_checkbox_change \/ save_timer

\* the watcher loop, the check boxes and their delayed save
SaveSpec == Init /\ [][SaveNext]_vars

\* C33: the poll cycle that follows a watch-set change on the GUI thread
\* (the immediate-fetch signal is set) performs a forced fetch, and its
\* update_from_fetch runs with the watch set the GUI thread has assigned
C33_WatchChangeNotLost ==
    [][(IsPoll /\ immediate_fetch_event) =>
          /\ out'.did_fetch
          /\ out'.fetch_reason = "forced"
          /\ (out'.arrived \/ watcher'.watched = watcher.watched)
      ]_vars

\* C33, first part: the cycle that follows a watch-set change performs a
\* forced fetch
C33_ForcedFetchFollows ==
    [][(IsPoll /\ immediate_fetch_event) =>
          (out'.did_fetch /\ out'.fetch_reason = "forced")]_vars

\* format_summary as poll_once calls it: no rows, live_now the maps with a
\* running live window
FormatSummary ==
    /\ out.op = "update_from_fetch"
    /\ \E r \in {format_summary_live(state, watcher.watched, <<>>, FALSE,
                     AllLiveMaps(state, watcher.watched, clock), clock)} :
         /\ state' = r.state
         /\ out' = [op |-> "format_summary",
                    live_summary |-> r.live_summary,
                    tracked_lines |-> r.tracked_lines]
    /\ UNCHANGED <<watcher, clock, immediate_fetch_event, file_tracking,
                   file_changed, file_server_uptimes, gui, changes, hist>>

LinesNext == FetchUpdate \/ FormatSummary

\* update_from_fetch on two watched maps, then the summary of the cycle
LinesSpec == FetchInit /\ [][LinesNext]_vars

\* the tracked lines of the summary just made ("none made": no lines)
LinesMade == IF out.op = "format_summary" THEN out.tracked_lines ELSE <<>>

\* the watched map mn has no ETA, no per-server ETA and is not in the live list
NoData(mn) ==
    /\ mn \in watcher.watched
    /\ mn \notin ListSet(out.live_summary)
    /\ mn \notin DOMAIN state.eta_seconds_by_map
    /\ Get(state.upcoming_by_map, mn, <<>>) = <<>>

\* C34 as stated: the tracked lines returned by format_summary are in
\* ascending order of their ETA seconds
C34_TrackedLinesSorted ==
    \A i, j \in 1..Len(LinesMade) :
        i < j => LinesMade[i][1] <= LinesMade[j][1]

\* C34, amended: the lines of the watched maps that are not live come first,
\* one per map in ascending map number; each carries its ETA seconds, a map
\* with no data the sentinel 10^9 and every other map less, so that ordering
\* the lines by that number puts the maps with no data last
C34_SortKeys ==
    out.op = "format_summary" =>
        LET non_live == SortedList(watcher.watched \ ListSet(out.live_summary))
        IN  /\ Len(LinesMade) >= Len(non_live)
            /\ \A i \in 1..Len(non_live) :
                  /\ LinesMade[i][2].map = non_live[i]
                  /\ NoData(non_live[i]) <=> LinesMade[i][1] = UnknownEta
                  /\ NoData(non_live[i]) <=> LinesMade[i][2].eta = <<"unknown">>
            /\ \A i \in 1..Len(LinesMade) :
                  \/ LinesMade[i][1] = UnknownEta
                  \/ /\ LinesMade[i][1] < UnknownEta
                     /\ LinesMade[i][2].eta = FormatEta(LinesMade[i][1])
                     /\ EtaMatch(LinesMade[i][2].eta)
                     /\ EtaSeconds(LinesMade[i][2].eta) = LinesMade[i][1]

\* a summary with a line of a map without data before a line with a known ETA
C34_Witness ==
    /\ out.op = "format_summary"
    /\ \E i, j \in 1..Len(LinesMade) :
          /\ i < j
          /\ LinesMade[i][1] = UnknownEta
          /\ LinesMade[j][1] < UnknownEta

\* the servers named by the tracked lines of map mn, one element per line
LineServers(mn) ==
    SelectSeq([i \in 1..Len(LinesMade) |->
                  IF LinesMade[i][2].map = mn THEN <<LinesMade[i][2].server>>
                  ELSE <<>>],
              LAMBDA s : Len(s) > 0)

\* C35: for every map in the live list the summary holds one tracked line per
\* server on which the map is queued, and no line for a server of the map's
\* live-servers set
C35_OtherServersOnly ==
    out.op = "format_summary" =>
        \A mn \in ListSet(out.live_summary) :
            LET items == Get(state.upcoming_by_map, mn, <<>>)
            IN  /\ LineServers(mn) = [i \in 1..Len(items) |-> <<items[i][1]>>]
                /\ \A i, j \in 1..Len(items) : items[i][1] = items[j][1] => i = j
                /\ \A i \in 1..Len(items) :
                      items[i][1] \notin Get(state.live_servers_by_map, mn, {})

\* C35, first part: one tracked line per server on which a live map is queued
C35_OneLinePerServer ==
    out.op = "format_summary" =>
        \A mn \in ListSet(out.live_summary) :
            LET items == Get(state.upcoming_by_map, mn, <<>>)
            IN  /\ LineServers(mn) = [i \in 1..Len(items) |-> <<items[i][1]>>]
                /\ \A i, j \in 1..Len(items) : items[i][1] = items[j][1] => i = j

\* calculate_next_fetch_time: the longest wait it returns, 300.0
MaxNextFetch == 300

\* min(a, b)
Min2(a, b) == IF a <= b THEN a ELSE b

\* variant: the wait until the periodic timer is not capped
calculate_next_fetch_time_uncapped(w, now_ts) ==
    IF w.watchlist_added THEN 0
    ELSE IF DOMAIN w.live_map_resync_times # {}
    THEN LET earliest_resync ==
                 MinOf({ w.live_map_resync_times[mn] :
                           mn \in DOMAIN w.live_map_resync_times })
             time_until_resync == earliest_resync - now_ts
         IN  IF earliest_resync <= now_ts THEN 0
             ELSE IF w.periodic_refetch_time > 0
             THEN Min2(Min2(time_until_resync,
                            Max0(w.periodic_refetch_time - now_ts)), MaxNextFetch)
             ELSE Min2(time_until_resync, MaxNextFetch)
    ELSE IF w.periodic_refetch_time > 0
    THEN IF w.periodic_refetch_time <= now_ts THEN 0
         ELSE w.periodic_refetch_time - now_ts
    ELSE MaxNextFetch

\* KackyWatcher.calculate_next_fetch_time
calculate_next_fetch_time(w, now_ts) ==
    IF w.watchlist_added THEN 0
    ELSE IF DOMAIN w.live_map_resync_times # {}
    THEN LET earliest_resync ==
                 MinOf({ w.live_map_resync_times[mn] :
                           mn \in DOMAIN w.live_map_resync_times })
             time_until_resync == earliest_resync - now_ts
         IN  IF earliest_resync <= now_ts THEN 0
             ELSE IF w.periodic_refetch_time > 0
             THEN Min2(Min2(time_until_resync,
                            Max0(w.periodic_refetch_time - now_ts)), MaxNextFetch)
             ELSE Min2(time_until_resync, MaxNextFetch)
    ELSE IF w.periodic_refetch_time > 0
    THEN IF w.periodic_refetch_time <= now_ts THEN 0
         ELSE Min2(w.periodic_refetch_time - now_ts, MaxNextFetch)
    ELSE MaxNextFetch

\* times at which a resync or the periodic refetch may be due: past, near,
\* within the longest wait, beyond it
TimerTimes ==
    {StartTime - 1, StartTime + 1, StartTime + ResyncDelay,
     StartTime + MaxNextFetch, StartTime + MaxNextFetch + ResyncDelay}

\* a watcher with any flag, any resync times and any periodic timer
NextFetchInit ==
    /\ state = InitialState
    /\ file_tracking \in SUBSET FetchMaps
    /\ \E added \in BOOLEAN, resync_maps \in SUBSET FetchMaps,
          periodic \in {0} \cup TimerTimes :
       \E resync \in [resync_maps -> TimerTimes] :
          watcher = [InitialWatcher(file_tracking) EXCEPT
                        !.watchlist_added = added,
                        !.live_map_resync_times = resync,
                        !.periodic_refetch_time = periodic]
    /\ clock = StartTime
    /\ immediate_fetch_event = FALSE
    /\ file_changed = FALSE
    /\ file_server_uptimes = EmptyDict
    /\ gui = InitialGui
    /\ changes = 0
    /\ out = [op |-> "none"]
    /\ hist = InitialHist

\* calculate_next_fetch_time(now_ts) called
NextFetchTime ==
    /\ out.op = "none"
    /\ \E now_ts \in {clock, clock + 1} :
          out' = [op |-> "calculate_next_fetch_time", now_ts |-> now_ts,
                  seconds |-> calculate_next_fetch_time(watcher, now_ts)]
    /\ UNCHANGED <<state, watcher, clock, immediate_fetch_event, file_tracking,
                   file_changed, file_server_uptimes, gui, changes, hist>>

NextFetchSpec == NextFetchInit /\ [][NextFetchTime]_vars

\* the waits until the triggers that are pending at now_ts: the flag
\* watchlist_added, the resync times and the periodic timer
PendingWaits(w, now_ts) ==
    (IF w.watchlist_added THEN {0} ELSE {})
      \cup { Max0(w.live_map_resync_times[mn] - now_ts) :
               mn \in DOMAIN w.live_map_resync_times }
      \cup (IF w.periodic_refetch_time > 0
            THEN {Max0(w.periodic_refetch_time - now_ts)} ELSE {})

\* C36: calculate_next_fetch_time returns a number of seconds from 0 to 300,
\* the smallest wait until a pending trigger, capped at 300, and 300 when no
\* trigger is pending
C36_NextFetchBounded ==
    out.op = "calculate_next_fetch_time" =>
        /\ out.seconds >= 0 /\ out.seconds <= MaxNextFetch
        /\ out.seconds = MinOf(PendingWaits(watcher, out.now_ts) \cup {MaxNextFetch})
        /\ PendingWaits(watcher, out.now_ts) = {} => out.seconds = MaxNextFetch

\* the periodic timer lies beyond the longest wait and nothing else is pending
C36_Witness ==
    /\ out.op = "calculate_next_fetch_time"
    /\ ~watcher.watchlist_added
    /\ DOMAIN watcher.live_map_resync_times = {}
    /\ watcher.periodic_refetch_time - out.now_ts > MaxNextFetch
    /\ out.seconds = MaxNextFetch

\* C37: a live episode ends and is not started over by ETAs that have already
\* been used: without a snapshot row about the map in between, the ETA-expiry
\* step promotes a map at most once per server that was reported for it
C37_LiveEpisodeEnds ==
    \A m \in Maps : hist.promos[m] <= Cardinality(Servers)

\* C38: get_live_summary, called for the summary, deletes no live window whose
\* expiry is still in the future and leaves the tracked ETAs, the per-server
\* ETAs and the notified set as they are
C38_SummaryKeepsLiveState ==
    [][out'.op = "format_summary" =>
          /\ \A m \in DOMAIN state.live_until_by_map :
                state.live_until_by_map[m] > clock =>
                    /\ m \in DOMAIN state'.live_until_by_map
                    /\ state'.live_until_by_map[m] = state.live_until_by_map[m]
          /\ state'.eta_seconds_by_map = state.eta_seconds_by_map
          /\ state'.upcoming_by_map = state.upcoming_by_map
          /\ state'.notified_live = state.notified_live
      ]_vars

\* C38, second part: get_live_summary leaves the tracked ETAs, the per-server
\* ETAs and the notified set as they are
C38_SummaryKeepsEtas ==
    [][out'.op = "format_summary" =>
          /\ state'.eta_seconds_by_map = state.eta_seconds_by_map
          /\ state'.upcoming_by_map = state.upcoming_by_map
          /\ state'.notified_live = state.notified_live
      ]_vars

\* C39: a step of the GUI thread (display refresh or countdown) between two
\* poll cycles removes no live window before its expiry, and a map whose
\* window it removes is taken out of notified_live
C39_RefreshKeepsLedger ==
    [][~IsPoll =>
          \A m \in DOMAIN state.live_until_by_map :
              m \notin DOMAIN state'.live_until_by_map =>
                  /\ state.live_until_by_map[m] <= clock + 1
                  /\ m \notin state'.notified_live
      ]_vars

\* C39, first part: a step of the GUI thread removes no live window before
\* its expiry
C39_NoEarlyRemoval ==
    [][~IsPoll =>
          \A m \in DOMAIN state.live_until_by_map :
              m \notin DOMAIN state'.live_until_by_map =>
                  state.live_until_by_map[m] <= clock + 1
      ]_vars

\* records about maps 1 and 2: live with 658 s remaining, or queued
WatchedOrNotPool ==
    UNION { { LiveRow(m, "Server 1", <<"6", "5", "8">>),
              NextRow(m, "Server 2", <<"0", ":", "0", "2">>) } : m \in FetchMaps }

\* the snapshots of FetchSnapshots, and snapshots of one or two such records
WatchedOrNotSnapshots ==
    FetchSnapshots
        \cup { <<a>> : a \in WatchedOrNotPool }
        \cup { <<a, b>> : a \in WatchedOrNotPool, b \in WatchedOrNotPool }

\* maps 1 and 2 were watched and fetched a second ago; the user has since
\* left any of them checked and the watch set has been taken over
WatchedInit ==
    /\ \E rows \in FetchBefore :
          state = update_from_fetch(InitialState, rows, FetchMaps, StartTime - 1)
    /\ file_tracking \in SUBSET FetchMaps
    /\ watcher = [InitialWatcher(file_tracking) EXCEPT
                     !.watchlist_added = TRUE,
                     !.initial_fetch_done = TRUE,
                     !.last_fetch_time = StartTime - 1,
                     !.last_successful_fetch_time = StartTime - 1,
                     !.last_status_check = StartTime - 1,
                     !.periodic_refetch_time = StartTime - 1 + PeriodicStale]
    /\ clock = StartTime - 1
    /\ immediate_fetch_event = TRUE
    /\ file_changed = FALSE
    /\ file_server_uptimes = EmptyDict
    /\ gui = InitialGui
    /\ changes = 0
    /\ out = [op |-> "none"]
    /\ hist = InitialHist

\* poll_once(force_fetch=True) whose fetch returns a snapshot at once
WatchedPoll ==
    /\ out.op = "none"
    /\ \E rows \in WatchedOrNotSnapshots :
       \E r \in {PollFinish(PollDecide(watcher, state, clock + 1,
                                       immediate_fetch_event, file_tracking,
                                       file_changed),
                            clock + 1, [rows |-> rows, raised |-> FALSE], 0)} :
          /\ state' = r.state
          /\ watcher' = r.watcher
          /\ clock' = r.end_ts
          /\ out' = [op |-> "poll_once", rows |-> rows, notes |-> r.notes,
                     promoted |-> r.promoted]
    /\ immediate_fetch_event' = FALSE
    /\ UNCHANGED <<file_tracking, file_changed, file_server_uptimes, gui,
                   changes, hist>>

\* one forced poll cycle over two maps of which any may be watched
WatchedSpec == WatchedInit /\ [][WatchedPoll]_vars

\* the rows without the records of unwatched maps, in their order
OnlyWatched(rows, watched_) ==
    SelectSeq(rows, LAMBDA r : \/ ~IntOk(r.map_number)
                               \/ DigitsValue(r.map_number) \in watched_)

\* C40: a poll cycle notifies only maps of its watch set, and its
\* update_from_fetch does with a snapshot what it does with the snapshot's
\* records of watched maps alone: the records of unwatched maps change
\* nothing, neither what the state holds about those maps nor the learned
\* uptimes
C40_OnlyWatchedMaps ==
    [][out'.op = "poll_once" =>
          LET d == Deciding
              watched_ == d.watcher.watched
              kept == OnlyWatched(out'.rows, watched_)
              after == update_from_fetch(d.state, out'.rows, watched_, clock + 1)
          IN  /\ \A n \in out'.notes : n[1] \in watched_
              /\ state' = PollFinish(d, clock + 1,
                                     [rows |-> kept, raised |-> FALSE], 0).state
              /\ after = update_from_fetch(d.state, kept, watched_, clock + 1)
              /\ \A m \in FetchMaps \ watched_ :
                     AboutMap(after, m) = AboutMap(d.state, m)
              /\ Len(kept) = 0 => after = d.state
      ]_vars

\* a cycle that watched map 1 only has notified it and has fetched a record
\* about map 2, of which the state holds an ETA
C40_Witness ==
    /\ out.op = "poll_once"
    /\ watcher.watched = {1}
    /\ \E n \in out.notes : n[1] = 1
    /\ Reports(out.rows, 2)
    /\ 2 \in DOMAIN state.eta_seconds_by_map

=============================================================================
